---------------------------- MODULE Spec2Model ----------------------------
(***************************************************************************)
(* A model of the synthesis orchestration pipeline of ppt-summarizer:      *)
(* image description batches (fan-out, Promise.all), the bone-structure    *)
(* (partition) request and its validation, the per-content notes requests  *)
(* that run concurrently with the mermaid request, and the synchronous     *)
(* merge into the study-notes document.                                    *)
(*                                                                         *)
(* JavaScript is single threaded and runs every task to completion: a      *)
(* synchronous stretch of code is one atomic step, and the only            *)
(* interleaving is the order in which outstanding requests complete.       *)
(* Launching a stage's requests is split into one step per request so that *)
(* the fan-out is something the model can get wrong; no completion         *)
(* handler runs in between (see EventLoopFree).                            *)
(***************************************************************************)
EXTENDS Integers, Sequences, FiniteSets, TLC

(***************************************************************************)
(* Bounds of the model.                                                    *)
(***************************************************************************)
\* pages of the input document in a pipeline run
NumPages == 2
\* CONFIG.visionBatchSize is drawn from 1..MaxBatchSize so that several
\* batches occur with few images
MaxBatchSize == 2
\* length of the array given to chunk in the chunking specification
MaxChunkLen == 5
\* batch sizes given to chunk in the chunking specification
MaxChunkSize == 3
\* top-level contents of a tree in the validation specification
MaxTop == 3
\* subcontents of the first top-level content in the validation specification
MaxSub == 2
\* largest page number a tree of the validation specification names
MaxTreePage == 2
\* largest page number of the universe in the validation specification
MaxUniversePage == 3
\* top-level contents of a tree the service returns in a pipeline run
MaxNodes == 2

(***************************************************************************)
(* The state.                                                              *)
(***************************************************************************)
VARIABLES
  pc,                  \* where the run is: see Init and the actions
  pages,               \* PageData[] given to analyzeAndSynthesize
  batchSize,           \* CONFIG.visionBatchSize
  batches,             \* the batches, in launch order
  batchReq,            \* describeImageBatch calls: state and BatchResult
  descArrival,         \* the order in which the batch calls completed
  imageDescriptions,   \* analyzeAndSynthesize's imageDescriptions
  totalCost,           \* analyzeAndSynthesize's totalCost
  synthesisInputPages, \* analyzeAndSynthesize's synthesisInputPages
  partReq,             \* buildBoneStructure's call
  partResponse,        \* the tree the service returned, as parsed
  boneStructure,       \* the structure buildBoneStructure returned
  log,                 \* what the validation wrote with console.warn
  nodeReq,             \* getNotesForEachBone's calls, one per content
  nodeArrival,         \* the order in which they completed
  mermaidReq,          \* generateMermaidFlowchart's call
  result,              \* what analyzeAndSynthesize returned
  files,               \* the files main has written to the output directory
  extractReq,          \* topics variant: extractTopicsAndFlowchart's call
  topicsParsed,        \* topics variant: what parseTopicsAndFlowchart returned
  summaryReq,          \* topics variant: the summarizeTopic calls, one per topic
  mergeReq,            \* topics variant: mergeStudyNotes' call
  parseText,           \* the parsing specification: parseImageDescriptions'
  parseBatch,          \*   arguments text and batch
  pdfImages,           \* processPDF: the image blocks of the document, in walk order
  pdfNext,             \* processPDF: the next image block to visit
  seenImageHashes,     \* processPDF: seenImageHashes
  pdfOut,              \* processPDF: the images kept so far, in order
  chunkArr,            \* the chunking specification: chunk's arguments
  chunkSize,
  chunkOut             \* and its result

vars ==
  <<pc, pages, batchSize, batches, batchReq, descArrival, imageDescriptions,
    totalCost, synthesisInputPages, partReq, partResponse, boneStructure, log,
    nodeReq, nodeArrival, mermaidReq, result, files, extractReq, topicsParsed,
    summaryReq, mergeReq, parseText, parseBatch, pdfImages, pdfNext,
    seenImageHashes, pdfOut, chunkArr, chunkSize, chunkOut>>

(***************************************************************************)
(* Generic helpers.                                                        *)
(***************************************************************************)
None == <<>>
Some(x) == <<x>>

Min(a, b) == IF a < b THEN a ELSE b

SetMax(S) == CHOOSE x \in S : \A y \in S : y <= x

Range(s) == {s[i] : i \in DOMAIN s}

RECURSIVE SumSeq(_)
SumSeq(s) == IF s = <<>> THEN 0 ELSE Head(s) + SumSeq(Tail(s))

\* Array.prototype.flat / push(...xs) over a sequence of sequences
RECURSIVE Concat(_)
Concat(ss) == IF ss = <<>> THEN <<>> ELSE Head(ss) \o Concat(Tail(ss))

\* all sequences over S of length at most n
SeqsUpTo(S, n) == UNION {[1..k -> S] : k \in 0..n}

(***************************************************************************)
(* chunk (config.ts 749-755, llm-analyzer.ts 374-380): the loop            *)
(*   for (i = 0; i < arr.length; i += size) result.push(arr.slice(i, i+size)) *)
(***************************************************************************)
RECURSIVE chunkFrom(_, _, _)
chunkFrom(arr, size, i) ==
  IF i >= Len(arr) THEN <<>>
  ELSE <<SubSeq(arr, i + 1, Min(i + size, Len(arr)))>> \o chunkFrom(arr, size, i + size)

\* a plausible slip: the loop runs while a full slice is left (i + size <= length)
RECURSIVE chunkFullOnly(_, _, _)
chunkFullOnly(arr, size, i) ==
  IF i + size > Len(arr) THEN <<>>
  ELSE <<SubSeq(arr, i + 1, i + size)>> \o chunkFullOnly(arr, size, i + size)

chunk_DropsTail(arr, size) == chunkFullOnly(arr, size, 0)

chunk(arr, size) == chunkFrom(arr, size, 0)

(***************************************************************************)
(* Pages and images (ExtractedImage, PageData).  An image id img-<p>-<k>   *)
(* is the pair <<p, k>>.                                                   *)
(***************************************************************************)
\* thresholds of the complexity router; their values are not in the sources
complexImageMinWidth == 1
complexImageMinBytes == 1

MODEL_MINI == "gpt-4o-mini"
MODEL_PREMIUM == "gpt-4o"

\* COST (llm-analyzer.ts 8-11), in units of 10^-8 dollars per token
COST == (MODEL_MINI :> [input |-> 15, output |-> 60]) @@
        (MODEL_PREMIUM :> [input |-> 250, output |-> 1000])

MkImage(p, k, w, b) ==
  [id |-> <<p, k>>, pageNumber |-> p, width |-> w, byteLength |-> b]

SimpleImage(p) == MkImage(p, 1, 1, 1)
ComplexImage(p) == MkImage(p, 1, 2, 1)

\* the first page has text and no image, a simple one or a complex one; a later
\* page is blank, has text only, or has text and a simple image
PageChoices(p) ==
  IF p = 1
  THEN {[pageNumber |-> p, text |-> "txt", images |-> imgs] :
          imgs \in {<<>>, <<SimpleImage(p)>>, <<ComplexImage(p)>>}}
  ELSE {[pageNumber |-> p, text |-> "", images |-> <<>>],
        [pageNumber |-> p, text |-> "txt", images |-> <<>>],
        [pageNumber |-> p, text |-> "txt", images |-> <<SimpleImage(p)>>]}

Docs ==
  {d \in [1..NumPages -> UNION {PageChoices(p) : p \in 1..NumPages}] :
     \A p \in 1..NumPages : d[p].pageNumber = p}

\* pages.flatMap((p) => p.images.map((img) => ({...img, pageText: p.text})))
AllImages(pgs) ==
  Concat([p \in DOMAIN pgs |->
            [k \in DOMAIN pgs[p].images |->
               [id |-> pgs[p].images[k].id,
                pageNumber |-> pgs[p].images[k].pageNumber,
                width |-> pgs[p].images[k].width,
                byteLength |-> pgs[p].images[k].byteLength,
                pageText |-> pgs[p].text]]])

\* a plausible slip: both thresholds must be exceeded
isComplex_Both(img) ==
  img.width > complexImageMinWidth /\ img.byteLength > complexImageMinBytes

isComplex(img) ==
  img.width > complexImageMinWidth \/ img.byteLength > complexImageMinBytes

NotComplex(img) == ~isComplex(img)

\* a plausible slip: the complex tier is chunked from all the images
MakeBatches_ComplexUnfiltered(allImages, size) ==
  LET simpleBatches == chunk(SelectSeq(allImages, NotComplex), size)
      complexBatches == chunk(allImages, size)
  IN  [i \in DOMAIN simpleBatches |->
         [images |-> simpleBatches[i], model |-> MODEL_MINI]] \o
      [i \in DOMAIN complexBatches |->
         [images |-> complexBatches[i], model |-> MODEL_PREMIUM]]

\* the batches in launch order: the simple tier's, then the complex tier's
MakeBatches(allImages, size) ==
  LET simpleBatches == chunk(SelectSeq(allImages, NotComplex), size)
      complexBatches == chunk(SelectSeq(allImages, isComplex), size)
  IN  [i \in DOMAIN simpleBatches |->
         [images |-> simpleBatches[i], model |-> MODEL_MINI]] \o
      [i \in DOMAIN complexBatches |->
         [images |-> complexBatches[i], model |-> MODEL_PREMIUM]]

(***************************************************************************)
(* Response texts are sequences of tokens: a marker line "\n[img-p-k]",    *)
(* a word, or white space.                                                 *)
(***************************************************************************)
Marker(id) == [k |-> "marker", v |-> id]
Word(id) == [k |-> "word", v |-> id]
Space == [k |-> "space", v |-> <<0, 0>>]

IsWhiteSpace(tok) == tok.k \in {"space", "nl"}

RECURSIVE trimStart(_)
trimStart(t) ==
  IF t # <<>> /\ IsWhiteSpace(Head(t)) THEN trimStart(Tail(t)) ELSE t

RECURSIVE trimEnd(_)
trimEnd(t) ==
  IF t # <<>> /\ IsWhiteSpace(t[Len(t)]) THEN trimEnd(SubSeq(t, 1, Len(t) - 1)) ELSE t

trim(t) == trimEnd(trimStart(t))

\* text.indexOf(marker), 1-based; 0 when absent
indexOf(text, tok) ==
  LET hits == {i \in DOMAIN text : text[i] = tok}
  IN  IF hits = {} THEN 0 ELSE CHOOSE i \in hits : \A j \in hits : i <= j

\* text.slice(start).search(/\n\[img-/): the next marker line after position start
nextMarkerFrom(text, start) ==
  LET hits == {i \in DOMAIN text : i > start /\ text[i].k = "marker"}
  IN  IF hits = {} THEN Len(text) + 1 ELSE CHOOSE i \in hits : \A j \in hits : i <= j

\* a plausible slip: the whole-text fallback is taken whatever the batch length
RECURSIVE parseFrom_FallbackAlways(_, _, _)
parseFrom_FallbackAlways(text, batch, n) ==
  IF n > Len(batch) THEN <<>>
  ELSE LET img == batch[n]
           idx == indexOf(text, Marker(img.id))
           one == IF idx = 0
                  THEN <<[imageId |-> img.id, pageNumber |-> img.pageNumber,
                          description |-> trim(text)]>>
                  ELSE <<[imageId |-> img.id, pageNumber |-> img.pageNumber,
                          description |->
                            trim(SubSeq(text, idx + 1, nextMarkerFrom(text, idx) - 1))]>>
       IN  one \o parseFrom_FallbackAlways(text, batch, n + 1)

RECURSIVE parseFrom(_, _, _)
parseFrom(text, batch, n) ==
  IF n > Len(batch) THEN <<>>
  ELSE LET img == batch[n]
           idx == indexOf(text, Marker(img.id))
           one == IF idx = 0
                  THEN IF Len(batch) = 1
                       THEN <<[imageId |-> img.id, pageNumber |-> img.pageNumber,
                               description |-> trim(text)]>>
                       ELSE <<>>
                  ELSE <<[imageId |-> img.id, pageNumber |-> img.pageNumber,
                          description |->
                            trim(SubSeq(text, idx + 1, nextMarkerFrom(text, idx) - 1))]>>
       IN  one \o parseFrom(text, batch, n + 1)

parseImageDescriptions(text, batch) == parseFrom(text, batch, 1)

\* what the service may answer to a batch: one block per image, or free text
WellFormedText(imgs) ==
  Concat([i \in DOMAIN imgs |-> <<Marker(imgs[i].id), Word(imgs[i].id), Space>>])

BatchTexts(imgs) == {WellFormedText(imgs), <<Space, Word(<<0, 0>>), Space>>}

\* token usage a response may report (usage?.prompt_tokens ?? 0)
Usages == {[input |-> 0, output |-> 0], [input |-> 3, output |-> 1]}

\* inputTokens * rates.input + outputTokens * rates.output
CallCost(usage, model) ==
  usage.input * COST[model].input + usage.output * COST[model].output

(***************************************************************************)
(* Content trees (Content, BoneStructure).  A title is the path of the     *)
(* content in the tree, so that a title names one content.                 *)
(***************************************************************************)
MkContent(id, title, pgs, subs) ==
  [contentId |-> id, title |-> title, pages |-> pgs, subcontents |-> subs]

\* a plausible slip: the subcontents' own pages, but not their descendants'
collectAllPages_OneLevel(content) ==
  content.pages \o
  Concat([i \in DOMAIN content.subcontents |-> content.subcontents[i].pages])

\* collectAllPages (config.ts 381-389)
RECURSIVE collectAllPages(_)
collectAllPages(content) ==
  content.pages \o
  Concat([i \in DOMAIN content.subcontents |->
            collectAllPages(content.subcontents[i])])

HasContent(p) == p.text # "" \/ p.images # <<>>

\* allPageNumbers (config.ts 392-396), in insertion order
AllPageNumbers(inputPages) ==
  LET withContent == SelectSeq(inputPages, HasContent)
  IN  [i \in DOMAIN withContent |-> withContent[i].pageNumber]

\* matchedPages (config.ts 398-402)
MatchedPages(structure) ==
  Range(Concat([i \in DOMAIN structure.contents |->
                  collectAllPages(structure.contents[i])]))

\* unmatchedPages (config.ts 404-406)
UnmatchedPages(structure, inputPages) ==
  LET matched == MatchedPages(structure)
      NotMatched(p) == p \notin matched
  IN  SelectSeq(AllPageNumbers(inputPages), NotMatched)

\* the coverage warning (config.ts 407-411): one line, only when pages are left
CoverageLog(structure, inputPages) ==
  LET unmatched == UnmatchedPages(structure, inputPages)
  IN  IF Len(unmatched) > 0
      THEN <<[kind |-> "unmatched", pages |-> unmatched]>>
      ELSE <<>>

\* the (title, page) claims of a sibling list, in the order the loops visit them
SiblingClaims(siblings) ==
  Concat([i \in DOMAIN siblings |->
            [j \in DOMAIN siblings[i].pages |->
               [title |-> siblings[i].title, page |-> siblings[i].pages[j]]]])

\* the pageMap loop (config.ts 415-426, 431-442): the first claimant of a page is
\* recorded, every later claim of that page is warned about against the first
RECURSIVE overlapScan(_, _, _)
overlapScan(claims, n, pageMap) ==
  IF n > Len(claims) THEN <<>>
  ELSE LET c == claims[n]
       IN  IF c.page \in DOMAIN pageMap
           THEN <<[page |-> c.page, first |-> pageMap[c.page], second |-> c.title]>> \o
                overlapScan(claims, n + 1, pageMap)
           ELSE overlapScan(claims, n + 1, pageMap @@ (c.page :> c.title))

\* the conflicts among one list of siblings, in the order they are warned about
SiblingOverlaps(siblings) == overlapScan(SiblingClaims(siblings), 1, <<>>)

\* console.warn of one conflict; parent is <<>> for top-level contents
OverlapWarnings(kind, parent, conflicts) ==
  [i \in DOMAIN conflicts |->
     [kind |-> kind, parent |-> parent, page |-> conflicts[i].page,
      first |-> conflicts[i].first, second |-> conflicts[i].second]]

\* 1. overlaps between top-level contents (config.ts 415-426)
TopOverlapLog(structure) ==
  OverlapWarnings("top", <<>>, SiblingOverlaps(structure.contents))

\* 2. overlaps between the subcontents of each top-level content (config.ts 429-444)
SubOverlapLog(structure) ==
  Concat([i \in DOMAIN structure.contents |->
            LET content == structure.contents[i]
            IN  IF Len(content.subcontents) > 0
                THEN OverlapWarnings("sub", content.title,
                                     SiblingOverlaps(content.subcontents))
                ELSE <<>>])

\* everything buildBoneStructure's validation writes with console.warn
ValidationLog(structure, inputPages) ==
  CoverageLog(structure, inputPages) \o TopOverlapLog(structure) \o
  SubOverlapLog(structure)

(***************************************************************************)
(* The per-page synthesis input (config.ts 92-107).                        *)
(***************************************************************************)
NoDescription == <<[k |-> "(no description)", v |-> <<0, 0>>]>>

\* new Map(imageDescriptions.map((d) => [d.imageId, d])).get(id): the last entry wins
DescMapGet(descs, id) ==
  LET hits == {i \in DOMAIN descs : descs[i].imageId = id}
  IN  IF hits = {} THEN None ELSE Some(descs[SetMax(hits)])

SynthesisInputPages(pgs, descs) ==
  LET withContent == SelectSeq(pgs, HasContent)
  IN  [i \in DOMAIN withContent |->
         [pageNumber |-> withContent[i].pageNumber,
          text |-> withContent[i].text,
          images |->
            [k \in DOMAIN withContent[i].images |->
               LET img == withContent[i].images[k]
                   d == DescMapGet(descs, img.id)
               IN  [imageId |-> img.id,
                    description |->
                      IF d = None THEN NoDescription ELSE d[1].description]]]]

(***************************************************************************)
(* getNotesForEachBone: the pages sent with one content's request          *)
(* (config.ts 455-462).                                                    *)
(***************************************************************************)
ContentPages(content, inputPages) ==
  LET PageMapGet(pageNum) ==
        LET hits == {i \in DOMAIN inputPages : inputPages[i].pageNumber = pageNum}
        IN  IF hits = {} THEN None ELSE Some(inputPages[SetMax(hits)])
      found == Concat([j \in DOMAIN content.pages |-> PageMapGet(content.pages[j])])
  IN  SelectSeq(found, HasContent)

NL == [k |-> "nl", v |-> <<0, 0>>]
Lit(name) == [k |-> name, v |-> <<0, 0>>]
Undefined == Lit("undefined")

NoteFields == {"mainNote", "reviewQuestions", "glossary", "commonPitfalls"}

\* a parsed notes payload: the text of each field, the fields the JSON lacks, and
\* the contentId the JSON carries, if it carries one
NotesPayload(i, missing, idOverride) ==
  [mainNote |-> <<[k |-> "main", v |-> <<i, 0>>]>>,
   reviewQuestions |-> <<[k |-> "question", v |-> <<i, 0>>]>>,
   glossary |-> <<Space>>,
   commonPitfalls |-> IF i = 1 THEN <<[k |-> "pitfall", v |-> <<i, 0>>]>> ELSE <<>>,
   missing |-> missing,
   idOverride |-> idOverride]

\* what the service may answer to the request of the i-th content
NotesPayloads(i) == {NotesPayload(i, {}, None), NotesPayload(i, {}, Some("c1"))}

\* { contentId: content.contentId, ...notes } (config.ts 524-530): a contentId of
\* the payload overwrites the content's
MakeContentNotes(content, payload) ==
  [contentId |-> IF payload.idOverride = None THEN content.contentId
                 ELSE payload.idOverride[1],
   mainNote |-> payload.mainNote,
   reviewQuestions |-> payload.reviewQuestions,
   glossary |-> payload.glossary,
   commonPitfalls |-> payload.commonPitfalls,
   missing |-> payload.missing]

\* a field as a template literal prints it
FieldText(n, f) == IF f \in n.missing THEN <<Undefined>> ELSE n[f]

(***************************************************************************)
(* buildFullNote (config.ts 621-707); the document is the token sequence   *)
(* of parts.join("").                                                      *)
(***************************************************************************)
RECURSIVE JoinWith(_, _)
JoinWith(parts, sep) ==
  IF parts = <<>> THEN <<>>
  ELSE IF Len(parts) = 1 THEN parts[1]
       ELSE parts[1] \o sep \o JoinWith(Tail(parts), sep)

\* new Map(contentNotes.map((n) => [n.contentId, n])).get(id): the last entry wins
ContentMapGet(contentNotes, id) ==
  LET hits == {i \in DOMAIN contentNotes : contentNotes[i].contentId = id}
  IN  IF hits = {} THEN None ELSE Some(contentNotes[SetMax(hits)])

\* formatContents (config.ts 630-643)
RECURSIVE formatContents(_, _)
formatContents(contents, level) ==
  LET prefix == IF level = 0 THEN "##" ELSE IF level = 1 THEN "###" ELSE "####"
  IN  Concat([i \in DOMAIN contents |->
                <<[k |-> prefix, v |-> contents[i].title], NL>> \o
                (IF Len(contents[i].subcontents) > 0
                 THEN formatContents(contents[i].subcontents, level + 1)
                 ELSE <<>>)])

\* a plausible slip: the blocks are pushed as the requests complete
MainNoteParts_ArrivalOrder(structure, contentNotes) ==
  [k \in DOMAIN nodeArrival |->
     FieldText(contentNotes[nodeArrival[k]], "mainNote") \o <<NL>>]

\* a plausible slip: the lookup's result is used without the test for undefined
MainNoteParts_NoGuard(structure, contentNotes) ==
  [i \in DOMAIN structure.contents |->
     LET notes == ContentMapGet(contentNotes, structure.contents[i].contentId)
     IN  IF notes # None
         THEN FieldText(notes[1], "mainNote") \o <<NL>>
         ELSE <<Undefined, NL>>]

\* mainNoteParts (config.ts 647-655): one block per content of structure.contents,
\* in that order, looked up by contentId
MainNoteParts(structure, contentNotes) ==
  Concat([i \in DOMAIN structure.contents |->
            LET notes == ContentMapGet(contentNotes, structure.contents[i].contentId)
            IN  IF notes # None
                THEN <<FieldText(notes[1], "mainNote") \o <<NL>>>>
                ELSE <<>>])

\* a plausible slip: the blank blocks are not filtered out
AppendixText_NoFilter(contentNotes, f) ==
  JoinWith([i \in DOMAIN contentNotes |-> contentNotes[i][f]], <<NL, NL>>)

\* contentNotes.map((n) => n.f).filter((q) => q.trim().length > 0).join("\n\n")
AppendixText(contentNotes, f) ==
  LET all == [i \in DOMAIN contentNotes |-> contentNotes[i][f]]
      NonBlank(q) == Len(trim(q)) > 0
  IN  JoinWith(SelectSeq(all, NonBlank), <<NL, NL>>)

\* q.trim() of a field the payload lacks, or of a missing flowchart, throws
BuildFullNoteThrows(contentNotes, mermaid) ==
  \/ \E i \in DOMAIN contentNotes :
       contentNotes[i].missing \cap {"reviewQuestions", "glossary", "commonPitfalls"} # {}
  \/ mermaid.missing

Section(heading, body) ==
  IF body = <<>> THEN <<>> ELSE <<Lit(heading), NL, NL>> \o body \o <<NL, NL>>

\* a plausible slip: the flowchart is written as it was returned, untrimmed
buildFullNote_Verbatim(structure, contentNotes, mermaid) ==
  LET mainNote == JoinWith(MainNoteParts(structure, contentNotes), <<NL>>)
  IN  <<Lit("# Summary"), NL, NL>> \o structure.summarization \o <<NL, NL>> \o
      <<Lit("# Contents"), NL, NL>> \o formatContents(structure.contents, 0) \o <<NL>> \o
      <<Lit("# Concept Map"), NL, NL, Lit("fence-mermaid"), NL>> \o
        mermaid.mermaidFlowchart \o <<NL, Lit("fence-end"), NL, NL>> \o
      <<Lit("# Study Notes"), NL, NL>> \o mainNote \o <<NL, NL>> \o
      Section("# Review Questions", AppendixText(contentNotes, "reviewQuestions")) \o
      Section("# Glossary", AppendixText(contentNotes, "glossary")) \o
      Section("# Common Pitfalls", AppendixText(contentNotes, "commonPitfalls"))

\* a plausible slip: the diagram is pushed after the main content
buildFullNote_DiagramAfterNotes(structure, contentNotes, mermaid) ==
  LET mainNote == JoinWith(MainNoteParts(structure, contentNotes), <<NL>>)
  IN  <<Lit("# Summary"), NL, NL>> \o structure.summarization \o <<NL, NL>> \o
      <<Lit("# Contents"), NL, NL>> \o formatContents(structure.contents, 0) \o <<NL>> \o
      <<Lit("# Study Notes"), NL, NL>> \o mainNote \o <<NL, NL>> \o
      <<Lit("# Concept Map"), NL, NL, Lit("fence-mermaid"), NL>> \o
        trim(mermaid.mermaidFlowchart) \o <<NL, Lit("fence-end"), NL, NL>> \o
      Section("# Review Questions", AppendixText(contentNotes, "reviewQuestions")) \o
      Section("# Glossary", AppendixText(contentNotes, "glossary")) \o
      Section("# Common Pitfalls", AppendixText(contentNotes, "commonPitfalls"))

buildFullNote(structure, contentNotes, mermaid) ==
  LET mainNote == JoinWith(MainNoteParts(structure, contentNotes), <<NL>>)
  IN  <<Lit("# Summary"), NL, NL>> \o structure.summarization \o <<NL, NL>> \o
      <<Lit("# Contents"), NL, NL>> \o formatContents(structure.contents, 0) \o <<NL>> \o
      <<Lit("# Concept Map"), NL, NL, Lit("fence-mermaid"), NL>> \o
        trim(mermaid.mermaidFlowchart) \o <<NL, Lit("fence-end"), NL, NL>> \o
      <<Lit("# Study Notes"), NL, NL>> \o mainNote \o <<NL, NL>> \o
      Section("# Review Questions", AppendixText(contentNotes, "reviewQuestions")) \o
      Section("# Glossary", AppendixText(contentNotes, "glossary")) \o
      Section("# Common Pitfalls", AppendixText(contentNotes, "commonPitfalls"))

(***************************************************************************)
(* What the service may answer in a pipeline run.                          *)
(***************************************************************************)
ContentIds == <<"c1", "c2", "c3", "c4">>

\* page lists of a top-level content: page 3 is on no page of the document
TopPages == {<<1>>, <<2, 3>>}

\* the trees: up to MaxNodes top-level contents; with several, the second may
\* repeat the first's contentId; a single one may have a subcontent holding page 2
PipelineTrees ==
  UNION {
    {[summarization |-> <<Lit("summary")>>,
      contents |->
        [i \in 1..n |->
           MkContent(IF dup /\ i = 2 THEN ContentIds[1] ELSE ContentIds[i],
                     <<i>>, pgs[i],
                     IF sub /\ i = 1
                     THEN <<MkContent("c1-1", <<1, 1>>, <<2>>, <<>>)>>
                     ELSE <<>>)]] :
       pgs \in [1..n -> TopPages],
       dup \in IF n >= 2 THEN BOOLEAN ELSE {FALSE},
       sub \in IF n = 1 THEN BOOLEAN ELSE {FALSE}} :
    n \in 0..MaxNodes}

MermaidPayloads ==
  {[mermaidFlowchart |-> <<Space, Lit("flowchart TD"), NL>>, missing |-> FALSE],
   [mermaidFlowchart |-> <<>>, missing |-> TRUE]}

(***************************************************************************)
(* Requests.  st is unissued, pending, ok, unparseable (the response came  *)
(* and JSON.parse threw) or failed (the call itself failed).               *)
(***************************************************************************)
NoUsage == [input |-> 0, output |-> 0]

NewBatchReq(batch) ==
  [st |-> "unissued", model |-> batch.model, usage |-> NoUsage,
   descriptions |-> <<>>, cost |-> 0]

NewPartReq == [st |-> "unissued", usage |-> NoUsage, cost |-> 0]

NewNodeReq(content) ==
  [st |-> "unissued", content |-> content, input |-> <<>>, usage |-> NoUsage,
   notes |-> None, cost |-> 0]

NewMermaidReq ==
  [st |-> "unissued", usage |-> NoUsage, mermaidFlowchart |-> <<>>,
   missing |-> FALSE, cost |-> 0]

\* once the run has failed nothing reads a response any more: one response
\* stands for all of them
Responses(S) == IF pc = "failed" THEN {CHOOSE x \in S : TRUE} ELSE S

Issued(reqs) == Cardinality({i \in DOMAIN reqs : reqs[i].st # "unissued"})

AllOk(reqs) == \A i \in DOMAIN reqs : reqs[i].st = "ok"

Outstanding(reqs) == {i \in DOMAIN reqs : reqs[i].st = "pending"}

\* a plausible slip: the flowchart and the notes requested while the structure
\* is still being built
SynthesisReady_Eager == pc \in {"partition", "synth"}

\* synthesizeNotes has the structure and is at its Promise.all (config.ts 717-730)
SynthesisReady == pc = "synth"

\* a plausible slip: "for (...) await call(...)", each request issued once the
\* ones before it have returned
LaunchEnabled_Sequential(reqs) ==
  Issued(reqs) < Len(reqs) /\ Outstanding(reqs) = {}

\* batches.map(...) and contents.map(...) (config.ts 75-77, 457; llm-analyzer.ts
\* 71-84) issue every request of the stage in one synchronous stretch: while one
\* is left to issue, the next launch is the task's next step
LaunchEnabled(reqs) == Issued(reqs) < Len(reqs)

\* run to completion: no handler of a completed request runs while the task
\* that launches a stage still has a request to issue
EventLoopFree ==
  /\ ~(pc = "desc" /\ LaunchEnabled(batchReq))
  /\ ~(SynthesisReady /\ (LaunchEnabled(nodeReq) \/ mermaidReq.st = "unissued"))

\* a plausible slip: Promise.allSettled, the rejections swallowed
PromiseAll_AllSettled(reqs) ==
  IF \A i \in DOMAIN reqs : reqs[i].st \notin {"unissued", "pending"}
  THEN "fulfilled" ELSE "pending"

\* a plausible slip: Promise.any, fulfilled by the first request that succeeds
PromiseAll_Any(reqs) ==
  IF \E i \in DOMAIN reqs : reqs[i].st = "ok" THEN "fulfilled"
  ELSE IF reqs # <<>> /\ \A i \in DOMAIN reqs : reqs[i].st \in {"failed", "unparseable"}
       THEN "rejected" ELSE "pending"

\* the state of Promise.all(promises) (config.ts 79, 533, 727): rejected as soon
\* as one promise is, fulfilled when all are
\* a plausible slip: a rejection is swallowed and the join is left waiting
PromiseAll_RejectionLost(reqs) ==
  IF AllOk(reqs) THEN "fulfilled" ELSE "pending"

PromiseAll(reqs) ==
  IF \E i \in DOMAIN reqs : reqs[i].st \in {"failed", "unparseable"} THEN "rejected"
  ELSE IF AllOk(reqs) THEN "fulfilled" ELSE "pending"

\* the state of the promise of an async function that awaits a Promise.all
AwaitedSt(outcome) ==
  IF outcome = "fulfilled" THEN "ok" ELSE IF outcome = "rejected" THEN "failed" ELSE "pending"

\* a plausible slip: the values are taken in the order the requests completed
PromiseAllValues_ArrivalOrder(reqs, arrival) ==
  [i \in DOMAIN arrival |-> reqs[arrival[i]]]

\* await Promise.all(promises): the values, in the order of the promises
PromiseAllValues(reqs, arrival) == [i \in DOMAIN reqs |-> reqs[i]]

\* for (const result of batchResults) imageDescriptions.push(...result.descriptions)
CollectDescriptions(results) ==
  Concat([i \in DOMAIN results |-> results[i].descriptions])

\* ... totalCost += result.cost; results.reduce((sum, r) => sum + r.cost, 0)
SumCosts(results) == SumSeq([i \in DOMAIN results |-> results[i].cost])

\* a plausible slip: the flowchart's cost is left out of step2Cost
SynthCost_NoMermaid(step1Cost, notesCost, mermaidCost) == step1Cost + notesCost

\* synthesizeNotes' totalCost (config.ts 713-734)
SynthCost(step1Cost, notesCost, mermaidCost) ==
  step1Cost + (notesCost + mermaidCost)

\* a plausible slip: the validation repairs the tree, dropping the contents
\* that claim a page an earlier content claimed
ReturnedStructure_Repaired(parsed) ==
  LET late == {c.second : c \in Range(SiblingOverlaps(parsed.contents))}
      Keep(content) == content.title \notin late
  IN  [parsed EXCEPT !.contents = SelectSeq(parsed.contents, Keep)]

\* return { structure, cost } (config.ts 446): the parsed tree, as it is
ReturnedStructure(parsed) == parsed

topicVars == <<extractReq, topicsParsed, summaryReq, mergeReq>>

\* the topics variant's calls before they are sent (part_002)
NewExtractReq == [st |-> "unissued", text |-> None, usage |-> NoUsage, cost |-> 0]

NewMergeReq ==
  [st |-> "unissued", topicBlocks |-> <<>>, mermaidFlowchart |-> <<>>,
   usage |-> NoUsage, cost |-> 0]

\* the variables of the parsing and extraction specifications, at rest
UnitIdle ==
  /\ parseText = <<>>
  /\ parseBatch = <<>>
  /\ pdfImages = <<>>
  /\ pdfNext = 1
  /\ seenImageHashes = {}
  /\ pdfOut = <<>>

TopicsIdle ==
  /\ extractReq = NewExtractReq
  /\ topicsParsed = None
  /\ summaryReq = <<>>
  /\ mergeReq = NewMergeReq

(***************************************************************************)
(* Init: analyzeAndSynthesize is called with the pages of a document.      *)
(***************************************************************************)
Init ==
  /\ pc = "start"
  /\ pages \in Docs
  /\ batchSize \in 1..MaxBatchSize
  /\ batches = <<>>
  /\ batchReq = <<>>
  /\ descArrival = <<>>
  /\ imageDescriptions = <<>>
  /\ totalCost = 0
  /\ synthesisInputPages = <<>>
  /\ partReq = NewPartReq
  /\ partResponse = None
  /\ boneStructure = None
  /\ log = <<>>
  /\ nodeReq = <<>>
  /\ nodeArrival = <<>>
  /\ mermaidReq = NewMermaidReq
  /\ result = None
  /\ files = {}
  /\ TopicsIdle
  /\ UnitIdle
  /\ chunkArr = <<>>
  /\ chunkSize = 1
  /\ chunkOut = <<>>

chunkVars == <<chunkArr, chunkSize, chunkOut>>
unitVars == <<parseText, parseBatch, pdfImages, pdfNext, seenImageHashes, pdfOut>>
inputVars == <<pages, batchSize>>
descVars == <<batches, batchReq, descArrival>>
synthVars == <<partResponse, boneStructure, log, nodeReq, nodeArrival, mermaidReq>>

\* the description stage is over: the per-page input is built and synthesizeNotes
\* calls buildBoneStructure, which issues its request (config.ts 92-115, 717, 355)
EnterSynthesis(descs, cost) ==
  /\ imageDescriptions' = descs
  /\ totalCost' = cost
  /\ synthesisInputPages' = SynthesisInputPages(pages, descs)
  /\ partReq' = [NewPartReq EXCEPT !.st = "pending"]
  /\ pc' = "partition"

\* a plausible slip: the description stage goes on with the first batch that
\* completed, without joining the others
DescJoin_FirstBatch(reqs, arrived) ==
  LET results == PromiseAllValues(reqs, arrived)
  IN  IF pc = "desc" /\ \E i \in DOMAIN reqs : reqs[i].st = "ok"
      THEN EnterSynthesis(CollectDescriptions(results), SumCosts(results))
      ELSE /\ pc' = IF pc = "desc" /\ PromiseAll(reqs) = "rejected" THEN "failed" ELSE pc
           /\ UNCHANGED <<imageDescriptions, totalCost, synthesisInputPages, partReq>>

\* await Promise.all(batchPromises) and what follows it (config.ts 79-115)
DescJoin(reqs, arrived) ==
  LET results == PromiseAllValues(reqs, arrived)
      outcome == PromiseAll(reqs)
  IN  IF pc = "desc" /\ outcome = "fulfilled"
      THEN EnterSynthesis(CollectDescriptions(results), SumCosts(results))
      ELSE /\ pc' = IF pc = "desc" /\ outcome = "rejected" THEN "failed" ELSE pc
           /\ UNCHANGED <<imageDescriptions, totalCost, synthesisInputPages, partReq>>

\* analyzeAndSynthesize up to its first await (config.ts 53-79)
Start ==
  /\ pc = "start"
  /\ LET allImages == AllImages(pages)
     IN  IF Len(allImages) > 0
         THEN /\ batches' = MakeBatches(allImages, batchSize)
              /\ batchReq' = [i \in DOMAIN batches' |-> NewBatchReq(batches'[i])]
              /\ pc' = "desc"
              /\ UNCHANGED <<imageDescriptions, totalCost, synthesisInputPages, partReq>>
         ELSE /\ EnterSynthesis(<<>>, 0)
              /\ UNCHANGED <<batches, batchReq>>
  /\ UNCHANGED <<descArrival, result>>
  /\ UNCHANGED <<topicVars, files, inputVars, synthVars, chunkVars, unitVars>>

\* describeImageBatch up to its await (config.ts 141-177): the request is issued
LaunchBatch ==
  /\ pc = "desc"
  /\ LaunchEnabled(batchReq)
  /\ batchReq' = [batchReq EXCEPT ![Issued(batchReq) + 1].st = "pending"]
  /\ UNCHANGED <<pc, batches, descArrival, imageDescriptions, totalCost,
                 synthesisInputPages, partReq, result>>
  /\ UNCHANGED <<topicVars, files, inputVars, synthVars, chunkVars, unitVars>>

\* a batch's response arrives (config.ts 179-190); when it is the last one the
\* join resolves and analyzeAndSynthesize goes on (config.ts 79-115)
BatchOk(i) ==
  /\ batchReq[i].st = "pending"
  /\ EventLoopFree
  /\ \E text \in Responses(BatchTexts(batches[i].images)), usage \in Responses(Usages) :
       LET reqs == [batchReq EXCEPT
                      ![i] = [st |-> "ok", model |-> batches[i].model, usage |-> usage,
                              descriptions |->
                                parseImageDescriptions(text, batches[i].images),
                              cost |-> CallCost(usage, batches[i].model)]]
       IN  /\ batchReq' = reqs
           /\ descArrival' = Append(descArrival, i)
           /\ DescJoin(reqs, descArrival')
  /\ UNCHANGED <<batches, result>>
  /\ UNCHANGED <<topicVars, files, inputVars, synthVars, chunkVars, unitVars>>

\* a batch's call fails: Promise.all rejects at once, the await throws and
\* analyzeAndSynthesize rejects (config.ts 79); the other calls are not cancelled
BatchFail(i) ==
  /\ batchReq[i].st = "pending"
  /\ EventLoopFree
  /\ batchReq' = [batchReq EXCEPT ![i].st = "failed"]
  /\ descArrival' = Append(descArrival, i)
  /\ DescJoin(batchReq', descArrival')
  /\ UNCHANGED <<batches, result>>
  /\ UNCHANGED <<topicVars, files, inputVars, synthVars, chunkVars, unitVars>>

\* buildBoneStructure after its await (config.ts 363-446): the cost, the parse, the
\* validation; then synthesizeNotes goes on to its Promise.all (config.ts 721-730)
PartitionOk ==
  /\ partReq.st = "pending"
  /\ EventLoopFree
  /\ \E tree \in PipelineTrees, usage \in Usages :
       /\ partReq' = [st |-> "ok", usage |-> usage, cost |-> CallCost(usage, MODEL_MINI)]
       /\ partResponse' = Some(tree)
       /\ log' = ValidationLog(tree, synthesisInputPages)
       /\ boneStructure' = Some(ReturnedStructure(tree))
       /\ nodeReq' = [i \in DOMAIN ReturnedStructure(tree).contents |->
                        NewNodeReq(ReturnedStructure(tree).contents[i])]
  /\ pc' = "synth"
  /\ UNCHANGED <<imageDescriptions, totalCost, synthesisInputPages, nodeArrival,
                 mermaidReq, result>>
  /\ UNCHANGED <<topicVars, files, inputVars, descVars, chunkVars, unitVars>>

\* the response is no JSON: JSON.parse throws (config.ts 374-378)
PartitionUnparseable ==
  /\ partReq.st = "pending"
  /\ EventLoopFree
  /\ partReq' = [partReq EXCEPT !.st = "unparseable"]
  /\ pc' = "failed"
  /\ UNCHANGED <<imageDescriptions, totalCost, synthesisInputPages, result>>
  /\ UNCHANGED <<topicVars, files, inputVars, descVars, synthVars, chunkVars, unitVars>>

\* the call fails (config.ts 355)
PartitionFail ==
  /\ partReq.st = "pending"
  /\ EventLoopFree
  /\ partReq' = [partReq EXCEPT !.st = "failed"]
  /\ pc' = "failed"
  /\ UNCHANGED <<imageDescriptions, totalCost, synthesisInputPages, result>>
  /\ UNCHANGED <<topicVars, files, inputVars, descVars, synthVars, chunkVars, unitVars>>

\* one contents.map callback up to its await (config.ts 457-507)
LaunchNode ==
  /\ SynthesisReady
  /\ LaunchEnabled(nodeReq)
  /\ LET i == Issued(nodeReq) + 1
     IN  nodeReq' = [nodeReq EXCEPT
                       ![i].st = "pending",
                       ![i].input = ContentPages(nodeReq[i].content, synthesisInputPages)]
  /\ UNCHANGED <<pc, imageDescriptions, totalCost, synthesisInputPages, partReq,
                 partResponse, boneStructure, log, nodeArrival, mermaidReq, result>>
  /\ UNCHANGED <<topicVars, files, inputVars, descVars, chunkVars, unitVars>>

\* generateMermaidFlowchart up to its await (config.ts 545-598), called once
\* getNotesForEachBone has returned its promise (config.ts 727-730)
LaunchMermaid ==
  /\ SynthesisReady
  /\ ~LaunchEnabled(nodeReq)
  /\ mermaidReq.st = "unissued"
  /\ mermaidReq' = [mermaidReq EXCEPT !.st = "pending"]
  /\ UNCHANGED <<pc, imageDescriptions, totalCost, synthesisInputPages, partReq,
                 partResponse, boneStructure, log, nodeReq, nodeArrival, result>>
  /\ UNCHANGED <<topicVars, files, inputVars, descVars, chunkVars, unitVars>>

\* both joins of synthesizeNotes have resolved (config.ts 727-744) and
\* analyzeAndSynthesize returns (config.ts 116-127); buildFullNote may throw
Finish(nodes, arrived, mermaid) ==
  LET results == PromiseAllValues(nodes, arrived)
      contentNotes == Concat([i \in DOMAIN results |-> results[i].notes])
      synthCost == SynthCost(partReq.cost, SumCosts(results), mermaid.cost)
  IN  IF BuildFullNoteThrows(contentNotes, mermaid)
      THEN /\ pc' = "failed"
           /\ UNCHANGED <<totalCost, result>>
      ELSE /\ pc' = "done"
           /\ totalCost' = totalCost + synthCost
           /\ result' = Some([imageDescriptions |-> imageDescriptions,
                              synthesisInputPages |-> synthesisInputPages,
                              studyNotes |->
                                buildFullNote(boneStructure[1], contentNotes, mermaid),
                              costEstimate |-> totalCost + synthCost])

\* await Promise.all([getNotesForEachBone(...), generateMermaidFlowchart(...)])
\* (config.ts 727-730), the first of which awaits Promise.all(contentPromises)
\* (config.ts 533)
Join(nodes, arrived, mermaid) ==
  LET outcome == PromiseAll(<<[st |-> AwaitedSt(PromiseAll(nodes))],
                              [st |-> mermaid.st]>>)
  IN  IF pc = "synth" /\ outcome = "fulfilled"
      THEN Finish(nodes, arrived, mermaid)
      ELSE /\ pc' = IF pc = "synth" /\ outcome = "rejected" THEN "failed" ELSE pc
           /\ UNCHANGED <<totalCost, result>>

\* a content's response arrives and parses (config.ts 509-531)
NodeOk(i) ==
  /\ nodeReq[i].st = "pending"
  /\ EventLoopFree
  /\ \E payload \in Responses(NotesPayloads(i)), usage \in Responses(Usages) :
       LET reqs == [nodeReq EXCEPT
                      ![i].st = "ok",
                      ![i].usage = usage,
                      ![i].notes = Some(MakeContentNotes(nodeReq[i].content, payload)),
                      ![i].cost = CallCost(usage, MODEL_MINI)]
       IN  /\ nodeReq' = reqs
           /\ nodeArrival' = Append(nodeArrival, i)
           /\ Join(reqs, nodeArrival', mermaidReq)
  /\ UNCHANGED <<imageDescriptions, synthesisInputPages, partReq, partResponse,
                 boneStructure, log, mermaidReq>>
  /\ UNCHANGED <<topicVars, files, inputVars, descVars, chunkVars, unitVars>>

\* a content's response is no JSON: JSON.parse throws (config.ts 516-522)
NodeUnparseable(i) ==
  /\ nodeReq[i].st = "pending"
  /\ EventLoopFree
  /\ nodeReq' = [nodeReq EXCEPT ![i].st = "unparseable"]
  /\ nodeArrival' = Append(nodeArrival, i)
  /\ Join(nodeReq', nodeArrival', mermaidReq)
  /\ UNCHANGED <<imageDescriptions, synthesisInputPages, partReq, partResponse,
                 boneStructure, log, mermaidReq>>
  /\ UNCHANGED <<topicVars, files, inputVars, descVars, chunkVars, unitVars>>

\* a content's call fails (config.ts 501)
NodeFail(i) ==
  /\ nodeReq[i].st = "pending"
  /\ EventLoopFree
  /\ nodeReq' = [nodeReq EXCEPT ![i].st = "failed"]
  /\ nodeArrival' = Append(nodeArrival, i)
  /\ Join(nodeReq', nodeArrival', mermaidReq)
  /\ UNCHANGED <<imageDescriptions, synthesisInputPages, partReq, partResponse,
                 boneStructure, log, mermaidReq>>
  /\ UNCHANGED <<topicVars, files, inputVars, descVars, chunkVars, unitVars>>

\* the flowchart's response arrives and parses (config.ts 600-617)
MermaidOk ==
  /\ mermaidReq.st = "pending"
  /\ EventLoopFree
  /\ \E payload \in Responses(MermaidPayloads), usage \in Responses(Usages) :
       LET m == [st |-> "ok", usage |-> usage,
                 mermaidFlowchart |-> payload.mermaidFlowchart,
                 missing |-> payload.missing,
                 cost |-> CallCost(usage, MODEL_MINI)]
       IN  /\ mermaidReq' = m
           /\ Join(nodeReq, nodeArrival, m)
  /\ UNCHANGED <<imageDescriptions, synthesisInputPages, partReq, partResponse,
                 boneStructure, log, nodeReq, nodeArrival>>
  /\ UNCHANGED <<topicVars, files, inputVars, descVars, chunkVars, unitVars>>

\* the flowchart's response is no JSON (config.ts 610-615)
MermaidUnparseable ==
  /\ mermaidReq.st = "pending"
  /\ EventLoopFree
  /\ mermaidReq' = [mermaidReq EXCEPT !.st = "unparseable"]
  /\ Join(nodeReq, nodeArrival, mermaidReq')
  /\ UNCHANGED <<imageDescriptions, synthesisInputPages, partReq, partResponse,
                 boneStructure, log, nodeReq, nodeArrival>>
  /\ UNCHANGED <<topicVars, files, inputVars, descVars, chunkVars, unitVars>>

\* the flowchart's call fails (config.ts 592)
MermaidFail ==
  /\ mermaidReq.st = "pending"
  /\ EventLoopFree
  /\ mermaidReq' = [mermaidReq EXCEPT !.st = "failed"]
  /\ Join(nodeReq, nodeArrival, mermaidReq')
  /\ UNCHANGED <<imageDescriptions, synthesisInputPages, partReq, partResponse,
                 boneStructure, log, nodeReq, nodeArrival>>
  /\ UNCHANGED <<topicVars, files, inputVars, descVars, chunkVars, unitVars>>

\* a plausible slip: main catches the failure of the analysis and goes on
MainResumes_Swallowed == pc \in {"done", "failed"}

\* main goes on after "await analyzeAndSynthesize(pages, apiKey)" (part_000 35-40)
\* only when the promise is fulfilled; a rejection goes to main().catch
\* (part_000 163-166), which ends the process
MainResumes == pc = "done"

IntermediateFiles ==
  {"image-descriptions.json", "synthesis-input-pages.json", "synthesis-input-pages.md"}

\* main from the return of analyzeAndSynthesize to its await of generateOutput
\* (part_000 42-83): the intermediate results and the markdown are written
WriteOutputs ==
  /\ MainResumes
  /\ files' = files \cup IntermediateFiles \cup {"study-notes.md"}
  /\ pc' = "render"
  /\ UNCHANGED <<imageDescriptions, totalCost, synthesisInputPages, partReq, result>>
  /\ UNCHANGED <<topicVars, inputVars, descVars, synthVars, chunkVars, unitVars>>

\* generateOutput has written study-notes.pdf or study-notes.html, as --format
\* asks (part_000 81-96)
RenderOk ==
  /\ pc = "render"
  /\ \E format \in {"pdf", "html"} :
       files' = files \cup {IF format = "html" THEN "study-notes.html" ELSE "study-notes.pdf"}
  /\ pc' = "finished"
  /\ UNCHANGED <<imageDescriptions, totalCost, synthesisInputPages, partReq, result>>
  /\ UNCHANGED <<topicVars, inputVars, descVars, synthVars, chunkVars, unitVars>>

\* generateOutput rejects: main().catch ends the process (part_000 83, 163-166)
RenderFail ==
  /\ pc = "render"
  /\ pc' = "renderFailed"
  /\ UNCHANGED <<imageDescriptions, totalCost, synthesisInputPages, partReq, result>>
  /\ UNCHANGED <<topicVars, files, inputVars, descVars, synthVars, chunkVars, unitVars>>

Next ==
  \/ Start
  \/ LaunchBatch
  \/ \E i \in DOMAIN batchReq : BatchOk(i)
  \/ \E i \in DOMAIN batchReq : BatchFail(i)
  \/ PartitionOk
  \/ PartitionUnparseable
  \/ PartitionFail
  \/ LaunchNode
  \/ LaunchMermaid
  \/ \E i \in DOMAIN nodeReq : NodeOk(i)
  \/ \E i \in DOMAIN nodeReq : NodeUnparseable(i)
  \/ \E i \in DOMAIN nodeReq : NodeFail(i)
  \/ MermaidOk
  \/ MermaidUnparseable
  \/ MermaidFail
  \/ WriteOutputs
  \/ RenderOk
  \/ RenderFail

Spec == Init /\ [][Next]_vars

(***************************************************************************)
(* The validation of buildBoneStructure on its own: a tree as the service  *)
(* may return it and the pages given to it.                                *)
(***************************************************************************)
ValPageLists == SeqsUpTo(1..MaxTreePage, 2)

\* n top-level contents without subcontents
ValFlat(n) ==
  {[i \in 1..n |-> MkContent("v", <<i>>, pl[i], <<>>)] : pl \in [1..n -> ValPageLists]}

\* one top-level content with m subcontents
ValWithSubs(m) ==
  {<<MkContent("v", <<1>>, p0,
               [j \in 1..m |-> MkContent("v", <<1, j>>, pl[j], <<>>)])>> :
     p0 \in {<<>>, <<1>>}, pl \in [1..m -> ValPageLists]}

\* two top-level contents: the first has a subcontent with two subcontents of
\* its own, the second has two subcontents
ValDeep(p0) ==
  {<<MkContent("v", <<1>>, p0,
               <<MkContent("v", <<1, 1>>, <<>>,
                           [k \in 1..2 |-> MkContent("v", <<1, 1, k>>, gl[k], <<>>)])>>),
     MkContent("v", <<2>>, <<>>,
               [j \in 1..2 |-> MkContent("v", <<2, j>>, <<sl[j]>>, <<>>)])>> :
     gl \in [1..2 -> ValPageLists], sl \in [1..2 -> 1..MaxTreePage]}

ValTree(contents) == [summarization |-> <<Lit("summary")>>, contents |-> contents]

\* pages 1..MaxUniversePage, each with text or blank
ValUniverses ==
  {[p \in 1..MaxUniversePage |-> [pageNumber |-> p, text |-> t[p], images |-> <<>>]] :
     t \in [1..MaxUniversePage -> {"", "txt"}]}

InitValidate ==
  /\ pc = "validate"
  /\ \/ \E n \in 0..MaxTop : \E c \in ValFlat(n) : partResponse = Some(ValTree(c))
     \/ \E m \in 1..MaxSub : \E c \in ValWithSubs(m) : partResponse = Some(ValTree(c))
     \/ \E p0 \in {<<>>, <<1>>} : \E c \in ValDeep(p0) : partResponse = Some(ValTree(c))
  /\ synthesisInputPages \in ValUniverses
  /\ pages = <<>>
  /\ batchSize = 1
  /\ batches = <<>>
  /\ batchReq = <<>>
  /\ descArrival = <<>>
  /\ imageDescriptions = <<>>
  /\ totalCost = 0
  /\ partReq = NewPartReq
  /\ boneStructure = None
  /\ log = <<>>
  /\ nodeReq = <<>>
  /\ nodeArrival = <<>>
  /\ mermaidReq = NewMermaidReq
  /\ result = None
  /\ files = {}
  /\ TopicsIdle
  /\ UnitIdle
  /\ chunkArr = <<>>
  /\ chunkSize = 1
  /\ chunkOut = <<>>

\* buildBoneStructure from the parsed response to its return (config.ts 380-446)
Validate ==
  /\ pc = "validate"
  /\ log' = ValidationLog(partResponse[1], synthesisInputPages)
  /\ boneStructure' = Some(ReturnedStructure(partResponse[1]))
  /\ pc' = "validated"
  /\ UNCHANGED <<imageDescriptions, totalCost, synthesisInputPages, partReq,
                 partResponse, nodeReq, nodeArrival, mermaidReq, result>>
  /\ UNCHANGED <<topicVars, files, inputVars, descVars, chunkVars, unitVars>>

NextValidate == Validate

SpecValidate == InitValidate /\ [][NextValidate]_vars

(***************************************************************************)
(* chunk on its own: an array of images of one tier and a batch size.      *)
(***************************************************************************)
ChunkItems == {SimpleImage(p) : p \in 1..NumPages}

InitChunk ==
  /\ pc = "chunk"
  /\ chunkArr \in SeqsUpTo(ChunkItems, MaxChunkLen)
  /\ chunkSize \in 1..MaxChunkSize
  /\ chunkOut = <<>>
  /\ pages = <<>>
  /\ batchSize = 1
  /\ batches = <<>>
  /\ batchReq = <<>>
  /\ descArrival = <<>>
  /\ imageDescriptions = <<>>
  /\ totalCost = 0
  /\ synthesisInputPages = <<>>
  /\ partReq = NewPartReq
  /\ partResponse = None
  /\ boneStructure = None
  /\ log = <<>>
  /\ nodeReq = <<>>
  /\ nodeArrival = <<>>
  /\ mermaidReq = NewMermaidReq
  /\ result = None
  /\ files = {}
  /\ TopicsIdle
  /\ UnitIdle

\* const batches = chunk(arr, size) (config.ts 72, llm-analyzer.ts 67-68)
ChunkCall ==
  /\ pc = "chunk"
  /\ chunkOut' = chunk(chunkArr, chunkSize)
  /\ pc' = "chunked"
  /\ UNCHANGED <<chunkArr, chunkSize, imageDescriptions, totalCost,
                 synthesisInputPages, partReq, result>>
  /\ UNCHANGED <<topicVars, files, inputVars, descVars, synthVars, unitVars>>

NextChunk == ChunkCall

SpecChunk == InitChunk /\ [][NextChunk]_vars

(***************************************************************************)
(* Properties.                                                             *)
(***************************************************************************)
Rejected(reqs) == \E i \in DOMAIN reqs : reqs[i].st \in {"failed", "unparseable"}

\* sub occurs in doc as a contiguous stretch
Contains(doc, sub) ==
  \E k \in 0..(Len(doc) - Len(sub)) : SubSeq(doc, k + 1, k + Len(sub)) = sub

AppendixHeadings ==
  {Lit("# Review Questions"), Lit("# Glossary"), Lit("# Common Pitfalls")}

\* the main content of a document: what stands between the "# Study Notes"
\* heading with its blank line and the blank line that closes the section
MainContent(doc) ==
  LET start == indexOf(doc, Lit("# Study Notes")) + 3
      heads == {i \in DOMAIN doc : doc[i] \in AppendixHeadings}
      stop == IF heads = {} THEN Len(doc) + 1
              ELSE CHOOSE i \in heads : \A j \in heads : i <= j
  IN  SubSeq(doc, start, stop - 3)

\* the tree is well formed in its ids (no two top-level nodes share one) and
\* every section result carries the id of the node it was requested for
IdsAsIssued ==
  LET contents == boneStructure[1].contents
  IN  /\ \A i, j \in DOMAIN contents :
           i # j => contents[i].contentId # contents[j].contentId
      /\ \A i \in DOMAIN nodeReq :
           nodeReq[i].notes # None =>
             nodeReq[i].notes[1].contentId = contents[i].contentId

\* C1: whatever the order in which the per-node requests completed, the main
\* content of the assembled document is the nodes' mainText blocks joined in the
\* stored order of the tree's nodes (for a tree whose node ids are distinct and
\* results that carry their node's id)
C1_MainContentInTreeOrder ==
  (pc = "done" /\ IdsAsIssued) =>
    MainContent(result[1].studyNotes) =
      JoinWith([i \in DOMAIN nodeReq |-> nodeReq[i].notes[1].mainNote \o <<NL>>], <<NL>>)

\* a run that ended with two nodes whose requests completed in reverse order
C1_ReverseArrivalDone ==
  pc = "done" /\ IdsAsIssued /\ nodeArrival = <<2, 1>>

\* C2: when a description batch request or a per-node request has failed, the
\* run has failed and nothing of what the other requests produced went on: after
\* a failed batch no description, cost or synthesis input exists and the partition
\* request is never issued; after a failed node request nothing is returned and
\* the synthesis cost is never added
C2_FailedStageExposesNothing ==
  /\ Rejected(batchReq) =>
       /\ pc = "failed"
       /\ imageDescriptions = <<>>
       /\ totalCost = 0
       /\ synthesisInputPages = <<>>
       /\ partReq.st = "unissued"
       /\ result = None
  /\ Rejected(nodeReq) =>
       /\ pc = "failed"
       /\ result = None
       /\ totalCost = SumSeq([i \in DOMAIN batchReq |-> batchReq[i].cost])

\* one batch has failed and another has succeeded with descriptions
C2_PartialBatchSuccess ==
  /\ \E i \in DOMAIN batchReq : batchReq[i].st = "failed"
  /\ \E i \in DOMAIN batchReq :
       batchReq[i].st = "ok" /\ batchReq[i].descriptions # <<>>

\* C3, as stated: a fan-out stage is over, by success or by failure, only when
\* none of its requests is outstanding
C3_StageOverOnlyWhenAllComplete ==
  /\ pc \notin {"start", "desc"} => Outstanding(batchReq) = {}
  /\ (pc = "done" \/ (pc = "failed" /\ Rejected(nodeReq))) => Outstanding(nodeReq) = {}

\* C3, amended: a fan-out stage succeeds only when every request it launched has
\* completed successfully; it fails as soon as one of its requests has failed,
\* with no state in between, whether or not sibling requests are outstanding
C3_SuccessJoinsAllFailureIsImmediate ==
  /\ pc \in {"partition", "synth", "done"} => AllOk(batchReq)
  /\ pc = "done" => AllOk(nodeReq) /\ mermaidReq.st = "ok"
  /\ (Rejected(batchReq) \/ Rejected(nodeReq)) => pc = "failed"

\* the node stage has failed while one of its requests is outstanding
C3_FailedWhileOutstanding ==
  pc = "failed" /\ Rejected(nodeReq) /\ Outstanding(nodeReq) # {}

\* C4: when a request of a stage has completed (so that its result could be
\* awaited or consumed), every request of that stage has been issued
C4_AllIssuedBeforeAnyCompletes ==
  /\ (\E i \in DOMAIN batchReq : batchReq[i].st \notin {"unissued", "pending"}) =>
       Issued(batchReq) = Len(batchReq)
  /\ (\E i \in DOMAIN nodeReq : nodeReq[i].st \notin {"unissued", "pending"}) =>
       Issued(nodeReq) = Len(nodeReq)

\* of two batches the second has completed while the first is outstanding
C4_SecondCompletesFirst ==
  Len(batchReq) = 2 /\ batchReq[1].st = "pending" /\ batchReq[2].st = "ok"

\* C5: when a per-node request or the diagram request has been issued, the
\* partition request has completed successfully and its tree is parsed,
\* validated and returned
C5_SynthesisAfterPartition ==
  (Issued(nodeReq) > 0 \/ mermaidReq.st # "unissued") =>
    /\ partReq.st = "ok"
    /\ partResponse # None
    /\ boneStructure # None
    /\ log = ValidationLog(partResponse[1], synthesisInputPages)

\* the diagram request and a per-node request are outstanding together
C5_DiagramAndNodeOutstanding ==
  mermaidReq.st = "pending" /\ Outstanding(nodeReq) # {}

\* the lists of same-level siblings of a tree: the top-level nodes, and the
\* children of each node at any depth
RECURSIVE SiblingLists(_)
SiblingLists(contents) ==
  {contents} \cup
  UNION {SiblingLists(contents[i].subcontents) : i \in DOMAIN contents}

\* C6, as stated: for every two same-level siblings and every page both claim,
\* validation has written a warning that names the page and the two siblings
C6_EveryOverlappingPairReported ==
  pc = "validated" =>
    \A siblings \in SiblingLists(partResponse[1].contents) :
      \A i, j \in DOMAIN siblings :
        i < j =>
          \A p \in Range(siblings[i].pages) \cap Range(siblings[j].pages) :
            \E w \in Range(log) :
              /\ w.kind \in {"top", "sub"}
              /\ w.page = p
              /\ {w.first, w.second} = {siblings[i].title, siblings[j].title}

\* a node's own pages together with its descendants' pages, at any depth
RECURSIVE TransitivePages(_)
TransitivePages(content) ==
  Range(content.pages) \cup
  UNION {TransitivePages(content.subcontents[i]) : i \in DOMAIN content.subcontents}

\* the pages of the universe: those with text or images
UniversePages == {p.pageNumber : p \in {q \in Range(synthesisInputPages) : HasContent(q)}}

\* the universe pages in no node's transitive page set
UncoveredPages ==
  UniversePages \
    UNION {TransitivePages(partResponse[1].contents[i]) :
             i \in DOMAIN partResponse[1].contents}

CoverageWarnings == SelectSeq(log, LAMBDA w : w.kind = "unmatched")

\* C7: the coverage warning lists exactly the universe pages that are in no
\* node's transitive page set, each once, and there is no coverage warning when
\* no such page exists
C7_CoverageWarningExact ==
  pc = "validated" =>
    IF UncoveredPages = {}
    THEN CoverageWarnings = <<>>
    ELSE /\ Len(CoverageWarnings) = 1
         /\ Range(CoverageWarnings[1].pages) = UncoveredPages
         /\ Len(CoverageWarnings[1].pages) = Cardinality(UncoveredPages)

\* a page is covered only by a node two levels below a top-level node, and
\* another page is covered by no node
C7_CoveredOnlyAtDepthThree ==
  /\ pc = "validated"
  /\ UncoveredPages # {}
  /\ \E p \in UniversePages \ UncoveredPages :
       \A i \in DOMAIN partResponse[1].contents :
         LET top == partResponse[1].contents[i]
         IN  /\ p \notin Range(top.pages)
             /\ \A j \in DOMAIN top.subcontents : p \notin Range(top.subcontents[j].pages)

\* C8: chunk gives ceil(N/B) batches, none empty, none longer than B, all but
\* the last of length B, and the batches joined in order are the input
C8_ChunkPartitionsInOrder ==
  pc = "chunked" =>
    /\ Len(chunkOut) = (Len(chunkArr) + chunkSize - 1) \div chunkSize
    /\ \A k \in DOMAIN chunkOut : Len(chunkOut[k]) >= 1 /\ Len(chunkOut[k]) <= chunkSize
    /\ \A k \in DOMAIN chunkOut : k < Len(chunkOut) => Len(chunkOut[k]) = chunkSize
    /\ Concat(chunkOut) = chunkArr

\* an input that does not divide into full batches
C8_ShortLastBatch ==
  pc = "chunked" /\ Len(chunkArr) = 5 /\ chunkSize = 2 /\ Len(chunkOut) = 3

\* C9: the cost a successful run reports is the sum over every call made (the
\* description batches, the partition call, the per-node calls, the diagram
\* call) of the call's tokens at the rates of the call's model
C9_CostIsSumOverCalls ==
  pc = "done" =>
    result[1].costEstimate =
      SumSeq([i \in DOMAIN batchReq |-> CallCost(batchReq[i].usage, batches[i].model)]) +
      CallCost(partReq.usage, MODEL_MINI) +
      SumSeq([i \in DOMAIN nodeReq |-> CallCost(nodeReq[i].usage, MODEL_MINI)]) +
      CallCost(mermaidReq.usage, MODEL_MINI)

\* a successful run with a batch of each tier, completed in reverse order, and
\* tokens used by every kind of call
C9_TwoTiersReverseArrival ==
  /\ pc = "done"
  /\ descArrival = <<2, 1>>
  /\ batches[1].model # batches[2].model
  /\ \A i \in DOMAIN batchReq : batchReq[i].usage.input > 0
  /\ partReq.usage.input > 0
  /\ Len(nodeReq) = 2
  /\ nodeArrival = <<2, 1>>
  /\ \A i \in DOMAIN nodeReq : nodeReq[i].usage.input > 0
  /\ mermaidReq.usage.input > 0

\* C10: the tree buildBoneStructure returns, and the one the per-node requests
\* are made from, is the tree the service returned; a run fails only because a
\* call failed or a response could not be used, never because of a warning; and
\* a finished document contains the mainText of every node (for a tree whose
\* node ids are distinct and results that carry their node's id)
C10_WarningsChangeNothing ==
  /\ boneStructure # None =>
       /\ boneStructure = partResponse
       /\ Len(nodeReq) = Len(partResponse[1].contents)
       /\ \A i \in DOMAIN nodeReq : nodeReq[i].content = partResponse[1].contents[i]
  /\ pc = "failed" =>
       \/ Rejected(batchReq)
       \/ partReq.st \in {"failed", "unparseable"}
       \/ Rejected(nodeReq)
       \/ mermaidReq.st \in {"failed", "unparseable"}
       \/ (mermaidReq.st = "ok" /\ mermaidReq.missing)
  /\ (pc = "done" /\ IdsAsIssued) =>
       \A i \in DOMAIN nodeReq :
         Contains(result[1].studyNotes, nodeReq[i].notes[1].mainNote)

\* a run finished although two top-level nodes claim the same page and a page
\* of the document is in no node
C10_DoneDespiteOverlapAndGap ==
  /\ pc = "done"
  /\ IdsAsIssued
  /\ \E w \in Range(log) : w.kind = "top"
  /\ \E w \in Range(log) : w.kind = "unmatched"
  /\ Len(nodeReq) = 2

\* C11: when a content-understanding call has failed or a response could not
\* be parsed, no file has been written: a file of the run exists only when
\* analyzeAndSynthesize has returned its result and no request was rejected
C11_NoFileFromFailedRun ==
  /\ pc = "failed" => files = {}
  /\ files # {} =>
       /\ result # None
       /\ ~Rejected(batchReq)
       /\ partReq.st = "ok"
       /\ ~Rejected(nodeReq)
       /\ mermaidReq.st = "ok"

\* the synthesis failed after the description stage had produced descriptions
C11_FailedWithDescriptions ==
  pc = "failed" /\ imageDescriptions # <<>> /\ Rejected(nodeReq) /\ files = {}


(***************************************************************************)
(* The topics variant of analyzeAndSynthesize (part_002): after the image  *)
(* descriptions, one call extracts topics and a flowchart, one call per    *)
(* topic summarizes it, and one call merges the summaries into the notes.  *)
(***************************************************************************)
\* "flowchart LR\n  A[Topics] --> B[Summary]"
DefaultFlowchart ==
  <<Lit("flowchart LR"), NL, Space, Space, Lit("A[Topics] --> B[Summary]")>>

MkTopic(i, pgs) == [name |-> <<"topic", i>>, pageNumbers |-> pgs]

\* the topic lists the service may return; a page may be in two topics, and a
\* topic may name its pages out of order or name a page the document lacks
TopicLists ==
  {<<>>,
   <<MkTopic(1, <<2, 1>>)>>,
   <<MkTopic(1, <<1>>), MkTopic(2, <<1, NumPages + 1>>)>>}

FlowchartText == <<Space, Lit("flowchart TD"), NL>>

\* what the service may answer to the extraction call: text that is not JSON,
\* or JSON with or without its topics and mermaidFlowchart members
TopicTexts ==
  {[json |-> FALSE, topics |-> None, mermaidFlowchart |-> None]} \cup
  {[json |-> TRUE, topics |-> t, mermaidFlowchart |-> m] :
     t \in {None} \cup {Some(l) : l \in TopicLists},
     m \in {None, Some(FlowchartText)}}

parseTopicsAndFlowchart(text) ==
  IF ~text.json
  THEN [topics |-> <<>>, mermaidFlowchart |-> DefaultFlowchart]
  ELSE [topics |-> IF text.topics = None THEN <<>> ELSE text.topics[1],
        mermaidFlowchart |->
          IF text.mermaidFlowchart = None THEN DefaultFlowchart
          ELSE trim(text.mermaidFlowchart[1])]

\* desc?.description ?? "diagram"
DiagramFallback == <<[k |-> "diagram", v |-> <<0, 0>>]>>

\* a plausible slip: the pages are not filtered by the topic's page set
TopicTextContent_AllPages(topic, pgs, descs) ==
  LET withContent == SelectSeq(pgs, HasContent)
  IN  [i \in DOMAIN withContent |->
         [pageNumber |-> withContent[i].pageNumber,
          text |-> withContent[i].text,
          images |->
            [k \in DOMAIN withContent[i].images |->
               LET img == withContent[i].images[k]
                   d == DescMapGet(descs, img.id)
               IN  [imageId |-> img.id,
                    description |->
                      IF d = None THEN DiagramFallback ELSE d[1].description]]]]

\* summarizeTopic's textContent: the entries of the pages of the topic
TopicTextContent(topic, pgs, descs) ==
  LET pageSet == Range(topic.pageNumbers)
      topicPages == SelectSeq(pgs, LAMBDA p : p.pageNumber \in pageSet)
      withContent == SelectSeq(topicPages, HasContent)
  IN  [i \in DOMAIN withContent |->
         [pageNumber |-> withContent[i].pageNumber,
          text |-> withContent[i].text,
          images |->
            [k \in DOMAIN withContent[i].images |->
               LET img == withContent[i].images[k]
                   d == DescMapGet(descs, img.id)
               IN  [imageId |-> img.id,
                    description |->
                      IF d = None THEN DiagramFallback ELSE d[1].description]]]]

NewSummaryReq(topic, content) ==
  [st |-> "unissued", topic |-> topic, textContent |-> content,
   summary |-> <<>>, usage |-> NoUsage, cost |-> 0]

\* resp.choices[0]?.message?.content ?? "" of a summary call
SummaryText(i) == <<[k |-> "summary", v |-> <<i, 0>>]>>

\* the document the merge call returns is the service's text
MergedNotes == {<<Lit("merged notes")>>, <<>>}

\* topics.map((t, i) => `### ${t.name}\n${topicSummaries[i] ?? ""}`)
TopicBlocks(topics, reqs) ==
  [i \in DOMAIN topics |-> [name |-> topics[i].name, summary |-> reqs[i].summary]]

\* the merge call, issued when Promise.all over the summaries has resolved
IssueMerge(parsed, reqs) ==
  [NewMergeReq EXCEPT !.st = "pending",
                      !.topicBlocks = TopicBlocks(parsed.topics, reqs),
                      !.mermaidFlowchart = parsed.mermaidFlowchart]

\* the description lists the vision stage may have left for a document
TopicDescriptions(pgs) ==
  LET imgs == AllImages(pgs)
      full == parseImageDescriptions(WellFormedText(imgs), imgs)
  IN  {full, <<>>} \cup {<<full[i]>> : i \in DOMAIN full}

\* the variables of the tree pipeline and of main, at rest
PipelineIdle ==
  /\ batchSize = 1
  /\ batches = <<>>
  /\ batchReq = <<>>
  /\ descArrival = <<>>
  /\ synthesisInputPages = <<>>
  /\ partReq = NewPartReq
  /\ partResponse = None
  /\ boneStructure = None
  /\ log = <<>>
  /\ nodeReq = <<>>
  /\ nodeArrival = <<>>
  /\ mermaidReq = NewMermaidReq
  /\ files = {}

ChunkIdle ==
  /\ chunkArr = <<>>
  /\ chunkSize = 1
  /\ chunkOut = <<>>

pipelineVars ==
  <<batchSize, batches, batchReq, descArrival, synthesisInputPages, partReq,
    partResponse, boneStructure, log, nodeReq, nodeArrival, mermaidReq, files>>

\* the run has the descriptions of the vision stage and enters step 3
InitTopics ==
  /\ pc = "topics"
  /\ pages \in Docs
  /\ imageDescriptions \in TopicDescriptions(pages)
  /\ totalCost = 0
  /\ result = None
  /\ TopicsIdle
  /\ UnitIdle
  /\ PipelineIdle
  /\ ChunkIdle

\* await extractTopicsAndFlowchart(client, pages): the call is sent
ExtractLaunch ==
  /\ pc = "topics"
  /\ extractReq' = [NewExtractReq EXCEPT !.st = "pending"]
  /\ pc' = "extract"
  /\ UNCHANGED <<pages, imageDescriptions, totalCost, result, topicsParsed,
                 summaryReq, mergeReq, pipelineVars, chunkVars, unitVars>>

\* the extraction call answers; its text is parsed and every summarizeTopic
\* call is sent at once (with no topic, Promise.all([]) resolves and the merge
\* call is sent)
ExtractOk ==
  /\ pc = "extract"
  /\ \E text \in TopicTexts, usage \in Usages :
       LET parsed == parseTopicsAndFlowchart(text)
           reqs == [i \in DOMAIN parsed.topics |->
                      [NewSummaryReq(parsed.topics[i],
                                     TopicTextContent(parsed.topics[i], pages,
                                                      imageDescriptions))
                         EXCEPT !.st = "pending"]]
       IN  /\ extractReq' = [st |-> "ok", text |-> Some(text), usage |-> usage,
                             cost |-> CallCost(usage, MODEL_MINI)]
           /\ totalCost' = totalCost + CallCost(usage, MODEL_MINI)
           /\ topicsParsed' = Some(parsed)
           /\ summaryReq' = reqs
           /\ IF parsed.topics = <<>>
              THEN /\ mergeReq' = IssueMerge(parsed, reqs)
                   /\ pc' = "merge"
              ELSE /\ mergeReq' = mergeReq
                   /\ pc' = "summaries"
  /\ UNCHANGED <<pages, imageDescriptions, result, pipelineVars, chunkVars, unitVars>>

\* client.chat.completions.create rejects: the error leaves analyzeAndSynthesize
ExtractFail ==
  /\ pc = "extract"
  /\ extractReq' = [extractReq EXCEPT !.st = "failed"]
  /\ pc' = "failed"
  /\ UNCHANGED <<pages, imageDescriptions, totalCost, result, topicsParsed,
                 summaryReq, mergeReq, pipelineVars, chunkVars, unitVars>>

\* one summarizeTopic call answers; the last one resolves Promise.all and the
\* merge call is sent
SummaryOk(i) ==
  /\ i \in DOMAIN summaryReq
  /\ summaryReq[i].st = "pending"
  /\ \E usage \in Responses(Usages) :
       LET reqs == [summaryReq EXCEPT ![i].st = "ok",
                                      ![i].summary = SummaryText(i),
                                      ![i].usage = usage,
                                      ![i].cost = CallCost(usage, MODEL_MINI)]
       IN  /\ summaryReq' = reqs
           /\ IF pc = "summaries" /\ PromiseAll(reqs) = "fulfilled"
              THEN /\ totalCost' = totalCost + SumCosts(reqs)
                   /\ mergeReq' = IssueMerge(topicsParsed[1], reqs)
                   /\ pc' = "merge"
              ELSE UNCHANGED <<totalCost, mergeReq, pc>>
  /\ UNCHANGED <<pages, imageDescriptions, result, extractReq,
                 topicsParsed, pipelineVars, chunkVars, unitVars>>

\* one summarizeTopic call rejects: Promise.all rejects at once
SummaryFail(i) ==
  /\ i \in DOMAIN summaryReq
  /\ summaryReq[i].st = "pending"
  /\ summaryReq' = [summaryReq EXCEPT ![i].st = "failed"]
  /\ pc' = IF pc = "summaries" THEN "failed" ELSE pc
  /\ UNCHANGED <<pages, imageDescriptions, totalCost, result, extractReq,
                 topicsParsed, mergeReq, pipelineVars, chunkVars, unitVars>>

\* the merge call answers: its text is the study notes
MergeOk ==
  /\ pc = "merge"
  /\ \E notes \in MergedNotes, usage \in Usages :
       LET cost == CallCost(usage, MODEL_MINI)
           total == totalCost + cost
       IN  /\ mergeReq' = [mergeReq EXCEPT !.st = "ok", !.usage = usage,
                                           !.cost = cost]
           /\ totalCost' = total
           /\ result' = Some([imageDescriptions |-> imageDescriptions,
                              synthesisInputPages |->
                                SynthesisInputPages(pages, imageDescriptions),
                              studyNotes |-> notes,
                              costEstimate |-> total])
  /\ pc' = "done"
  /\ UNCHANGED <<pages, imageDescriptions, extractReq, topicsParsed, summaryReq,
                 pipelineVars, chunkVars, unitVars>>

MergeFail ==
  /\ pc = "merge"
  /\ mergeReq' = [mergeReq EXCEPT !.st = "failed"]
  /\ pc' = "failed"
  /\ UNCHANGED <<pages, imageDescriptions, totalCost, result, extractReq,
                 topicsParsed, summaryReq, pipelineVars, chunkVars, unitVars>>

NextTopics ==
  \/ ExtractLaunch
  \/ ExtractOk
  \/ ExtractFail
  \/ \E i \in 1..MaxNodes : SummaryOk(i) \/ SummaryFail(i)
  \/ MergeOk
  \/ MergeFail

SpecTopics == InitTopics /\ [][NextTopics]_vars


\* C12: when the response to the partition call is not a well-formed
\* structural payload, the run has aborted: no per-topic request was issued,
\* no merge request was issued from a default tree or diagram, and no result
\* is returned.
C12_UnparseablePartitionAborts ==
  (extractReq.text # None /\ ~extractReq.text[1].json) =>
    /\ pc = "failed"
    /\ summaryReq = <<>>
    /\ mergeReq.st = "unissued"
    /\ result = None


(***************************************************************************)
(* The assembly specification: synthesizeNotes at the moment its two       *)
(* Promise.all have resolved (config.ts 719-731), with every response      *)
(* parsed, followed by buildFullNote (config.ts 734-738).                  *)
(***************************************************************************)
\* the texts a field of a notes payload may hold: plain, padded with white
\* space, blank, empty
AsmField(kind, i) ==
  {<<[k |-> kind, v |-> <<i, 0>>]>>,
   <<Space, [k |-> kind, v |-> <<i, 0>>], NL>>,
   <<Space>>,
   <<>>}

\* the notes payloads JSON.parse may return for the i-th content: any object,
\* with or without each member
AsmPayloads(i) ==
  {[mainNote |-> <<[k |-> "main", v |-> <<i, 0>>]>>,
    reviewQuestions |-> rq, glossary |-> gl, commonPitfalls |-> cp,
    missing |-> {}, idOverride |-> None] :
     rq \in AsmField("question", i),
     gl \in {<<[k |-> "term", v |-> <<i, 0>>]>>, <<Space>>},
     cp \in {<<[k |-> "pitfall", v |-> <<i, 0>>]>>, <<>>}}
  \cup {NotesPayload(i, {f}, None) : f \in NoteFields}
  \cup {NotesPayload(i, {}, Some("c1")), NotesPayload(i, {}, Some("zz"))}

\* the flowchart payloads JSON.parse may return: padded with white space,
\* several lines without padding, or without the member
AsmMermaidPayloads ==
  {[mermaidFlowchart |-> <<Space, Lit("flowchart TD"), NL>>, missing |-> FALSE],
   [mermaidFlowchart |-> <<Lit("flowchart TD"), NL, Space, Lit("A --> B")>>,
    missing |-> FALSE],
   [mermaidFlowchart |-> <<>>, missing |-> TRUE]}

AsmTrees(n) ==
  {t \in PipelineTrees :
     /\ Len(t.contents) = n
     /\ \A i \in DOMAIN t.contents : t.contents[i].pages = <<1>>}

InitAssemble ==
  /\ pc = "assemble"
  /\ \E n \in 0..MaxNodes :
       \E tree \in AsmTrees(n) :
         /\ boneStructure = Some(ReturnedStructure(tree))
         /\ partResponse = Some(tree)
         /\ \E payloads \in [1..n -> UNION {AsmPayloads(i) : i \in 1..n}] :
              /\ \A i \in 1..n : payloads[i] \in AsmPayloads(i)
              /\ nodeReq =
                   [i \in 1..n |->
                      [NewNodeReq(tree.contents[i]) EXCEPT
                         !.st = "ok",
                         !.notes = Some(MakeContentNotes(tree.contents[i],
                                                         payloads[i]))]]
         /\ nodeArrival = [i \in 1..n |-> i]
  /\ \E payload \in AsmMermaidPayloads :
       mermaidReq = [NewMermaidReq EXCEPT
                       !.st = "ok",
                       !.mermaidFlowchart = payload.mermaidFlowchart,
                       !.missing = payload.missing]
  /\ partReq = [NewPartReq EXCEPT !.st = "ok"]
  /\ pages = <<>>
  /\ batchSize = 1
  /\ batches = <<>>
  /\ batchReq = <<>>
  /\ descArrival = <<>>
  /\ imageDescriptions = <<>>
  /\ totalCost = 0
  /\ synthesisInputPages = <<>>
  /\ log = <<>>
  /\ result = None
  /\ files = {}
  /\ TopicsIdle
  /\ UnitIdle
  /\ ChunkIdle

\* const fullNote = buildFullNote(structure, contentNotes, mermaidFlowchart)
\* and the return of analyzeAndSynthesize; an exception of buildFullNote ends
\* the run
Assemble ==
  /\ pc = "assemble"
  /\ Finish(nodeReq, nodeArrival, mermaidReq)
  /\ UNCHANGED <<imageDescriptions, synthesisInputPages, partReq, partResponse,
                 boneStructure, log, nodeReq, nodeArrival, mermaidReq>>
  /\ UNCHANGED <<topicVars, files, inputVars, descVars, chunkVars, unitVars>>

NextAssemble == Assemble

SpecAssemble == InitAssemble /\ [][NextAssemble]_vars

\* the notes payloads the requests received
ContentNotes == [i \in DOMAIN nodeReq |-> nodeReq[i].notes[1]]

\* C13: a response that parses as JSON but lacks a required field makes the
\* run fail: no document is returned, and the missing value is never written
\* into a document.
C13_MissingFieldIsFatal ==
  /\ ((\E i \in DOMAIN nodeReq :
         nodeReq[i].st = "ok" /\ nodeReq[i].notes[1].missing # {})
      \/ (mermaidReq.st = "ok" /\ mermaidReq.missing))
       => pc # "done" /\ result = None
  /\ result # None => ~Contains(result[1].studyNotes, <<Undefined>>)


(***************************************************************************)
(* The parsing specification: parseImageDescriptions applied to a response *)
(* text and a batch (config.ts 228-263).                                   *)
(***************************************************************************)
\* longest response text of the parsing specification, in tokens
MaxParseLen == 4
\* largest batch of the parsing specification
MaxParseBatch == 3

\* the images of a batch: the first sits on page 1, the others on page 2
ParseImage(n) == MkImage(IF n = 1 THEN 1 ELSE 2, IF n = 1 THEN 1 ELSE n - 1, 1, 1)

ParseBatches == {[n \in 1..len |-> ParseImage(n)] : len \in 1..MaxParseBatch}

\* the tokens of a response: the id delimiter of an image, two words, white space
ParseTokens ==
  {Marker(ParseImage(n).id) : n \in 1..MaxParseBatch} \cup
  {Word(<<0, 0>>), Word(<<0, 1>>), Space}

InitParse ==
  /\ pc = "parse"
  /\ parseBatch \in ParseBatches
  /\ parseText \in SeqsUpTo(ParseTokens, MaxParseLen)
  /\ pdfImages = <<>>
  /\ pdfNext = 1
  /\ seenImageHashes = {}
  /\ pdfOut = <<>>
  /\ pages = <<>>
  /\ imageDescriptions = <<>>
  /\ totalCost = 0
  /\ result = None
  /\ TopicsIdle
  /\ PipelineIdle
  /\ ChunkIdle

\* const descriptions = parseImageDescriptions(text, batch) (config.ts 185)
ParseCall ==
  /\ pc = "parse"
  /\ imageDescriptions' = parseImageDescriptions(parseText, parseBatch)
  /\ pc' = "parsed"
  /\ UNCHANGED <<pages, totalCost, result, parseText, parseBatch, pdfImages,
                 pdfNext, seenImageHashes, pdfOut, topicVars, pipelineVars,
                 chunkVars>>

NextParse == ParseCall

SpecParse == InitParse /\ [][NextParse]_vars

\* the entries of the parse result that describe the image id
EntriesOf(id) ==
  {i \in DOMAIN imageDescriptions : imageDescriptions[i].imageId = id}

\* C14: after a batch response is parsed, an image whose delimiter is absent
\* from the text has, in a batch of one, the whole trimmed text as its
\* description, and in a larger batch no description at all; the parse always
\* completes, and every image whose delimiter is present has its description.
C14_AbsentDelimiter ==
  pc = "parsed" =>
    \A n \in DOMAIN parseBatch :
      LET img == parseBatch[n]
      IN  IF Marker(img.id) \in Range(parseText)
          THEN Cardinality(EntriesOf(img.id)) = 1
          ELSE IF Len(parseBatch) = 1
               THEN imageDescriptions =
                      <<[imageId |-> img.id, pageNumber |-> img.pageNumber,
                         description |-> trim(parseText)]>>
               ELSE EntriesOf(img.id) = {}

\* a batch of three whose text names the first and the third image only
C14_MiddleImageUndescribed ==
  /\ pc = "parsed"
  /\ Len(parseBatch) = 3
  /\ Marker(parseBatch[2].id) \notin Range(parseText)
  /\ EntriesOf(parseBatch[2].id) = {}
  /\ \E i, j \in DOMAIN imageDescriptions :
       /\ imageDescriptions[i].imageId = parseBatch[1].id
       /\ imageDescriptions[j].imageId = parseBatch[3].id
       /\ imageDescriptions[i].description # <<>>
       /\ imageDescriptions[j].description # <<>>


\* C15: in the input of every synthesis request, every image of a page carries
\* its parsed description if the vision stage produced one and the literal
\* text "(no description)" otherwise.
C15_UndescribedImageSaysNoDescription ==
  \A i \in DOMAIN summaryReq :
    \A n \in DOMAIN summaryReq[i].textContent :
      LET entry == summaryReq[i].textContent[n]
      IN  \A k \in DOMAIN entry.images :
            LET d == DescMapGet(imageDescriptions, entry.images[k].imageId)
            IN  entry.images[k].description =
                  IF d = None THEN NoDescription ELSE d[1].description


(***************************************************************************)
(* The routing specification: the description stage of the tiered variant  *)
(* up to the launch of its batches (llm-analyzer.ts 43-84), over images at *)
(* and above each threshold.                                               *)
(***************************************************************************)
\* most images on the first page of the routing specification
MaxTierImages == 2

\* an image's width and byte length: at the threshold or above it
TierSizes ==
  {complexImageMinWidth, complexImageMinWidth + 1} \X
  {complexImageMinBytes, complexImageMinBytes + 1}

TierPage(p, sizes) ==
  [pageNumber |-> p, text |-> "txt",
   images |-> [k \in DOMAIN sizes |-> MkImage(p, k, sizes[k][1], sizes[k][2])]]

InitTier ==
  /\ pc = "start"
  /\ \E s1 \in SeqsUpTo(TierSizes, MaxTierImages), s2 \in SeqsUpTo(TierSizes, 1) :
       pages = <<TierPage(1, s1), TierPage(2, s2)>>
  /\ batchSize \in 1..MaxBatchSize
  /\ batches = <<>>
  /\ batchReq = <<>>
  /\ descArrival = <<>>
  /\ imageDescriptions = <<>>
  /\ totalCost = 0
  /\ synthesisInputPages = <<>>
  /\ partReq = NewPartReq
  /\ partResponse = None
  /\ boneStructure = None
  /\ log = <<>>
  /\ nodeReq = <<>>
  /\ nodeArrival = <<>>
  /\ mermaidReq = NewMermaidReq
  /\ result = None
  /\ files = {}
  /\ TopicsIdle
  /\ UnitIdle
  /\ ChunkIdle

NextTier == Start \/ LaunchBatch

SpecTier == InitTier /\ [][NextTier]_vars

\* the images routed to a model, in the order of its batches
TierImages(model) ==
  Concat([i \in DOMAIN batches |->
            IF batches[i].model = model THEN batches[i].images ELSE <<>>])

\* the position of an image in allImages
PositionIn(imgs, id) == CHOOSE i \in DOMAIN imgs : imgs[i].id = id

InOriginalOrder(tier, all) ==
  \A i, j \in DOMAIN tier :
    i < j => PositionIn(all, tier[i].id) < PositionIn(all, tier[j].id)

\* C16: once the batches are made, every image is in exactly one tier; it is
\* in the complex tier iff its width exceeds the width threshold or its byte
\* length exceeds the byte threshold; each tier keeps the images' original
\* relative order; and every batch request is sent to the model of its tier.
C16_TierRouting ==
  pc = "desc" =>
    LET all == AllImages(pages)
        simple == TierImages(MODEL_MINI)
        complex == TierImages(MODEL_PREMIUM)
    IN  /\ Len(simple) + Len(complex) = Len(all)
        /\ \A i \in DOMAIN all :
             LET exceeds == \/ all[i].width > complexImageMinWidth
                            \/ all[i].byteLength > complexImageMinBytes
             IN  /\ exceeds <=> all[i] \in Range(complex)
                 /\ ~exceeds <=> all[i] \in Range(simple)
        /\ Range(simple) \cap Range(complex) = {}
        /\ InOriginalOrder(simple, all)
        /\ InOriginalOrder(complex, all)
        /\ \A i \in DOMAIN batchReq :
             /\ batchReq[i].model = batches[i].model
             /\ batchReq[i].model \in {MODEL_MINI, MODEL_PREMIUM}

\* every batch is sent, and the tiers hold: a simple image at both thresholds
\* from each page, and an image that is complex by its byte length alone
C16_BothTiersLaunched ==
  /\ pc = "desc"
  /\ batchReq # <<>>
  /\ \A i \in DOMAIN batchReq : batchReq[i].st = "pending"
  /\ {img.pageNumber : img \in Range(TierImages(MODEL_MINI))} = {1, 2}
  /\ \E img \in Range(TierImages(MODEL_PREMIUM)) :
       img.width = complexImageMinWidth /\ img.byteLength > complexImageMinBytes


(***************************************************************************)
(* The extraction specification: processPDF's walk over the image blocks   *)
(* of the document (part_001 39-82).  The PNG data of an image is the      *)
(* bytes simpleHash samples and the bytes it skips; all data have one      *)
(* length.                                                                 *)
(***************************************************************************)
MIN_IMAGE_DIMENSION == 50

\* most image blocks of a document in the extraction specification
MaxPdfImages == 3

\* simpleHash (part_001 114-120): a function of the sampled bytes and the length
simpleHash(data) == <<data.sampled, "length">>

\* PNG data: two images that differ only in bytes the hash skips, and a third
PngData ==
  {[sampled |-> 0, skipped |-> 0], [sampled |-> 0, skipped |-> 1],
   [sampled |-> 1, skipped |-> 0]}

ImageSizes ==
  {<<MIN_IMAGE_DIMENSION, MIN_IMAGE_DIMENSION>>,
   <<MIN_IMAGE_DIMENSION - 1, MIN_IMAGE_DIMENSION>>,
   <<MIN_IMAGE_DIMENSION, MIN_IMAGE_DIMENSION - 1>>}

\* the image blocks of a document of two pages, the first page's first
PdfImageSeqs(len) ==
  {[i \in 1..len |->
      [pageNumber |-> IF i <= split THEN 1 ELSE 2,
       width |-> sizes[i][1], height |-> sizes[i][2], data |-> data[i]]] :
     split \in 0..len, sizes \in [1..len -> ImageSizes],
     data \in [1..len -> PngData]}

\* a plausible slip: duplicates are looked for on the same page only
onImageBlock_PerPage(seen, images, image) ==
  IF image.width < MIN_IMAGE_DIMENSION \/ image.height < MIN_IMAGE_DIMENSION
  THEN [seen |-> seen, images |-> images]
  ELSE LET hash == simpleHash(image.data)
           onPage == SelectSeq(images, LAMBDA e : e.pageNumber = image.pageNumber)
       IN  IF \E k \in DOMAIN onPage : simpleHash(onPage[k].data) = hash
           THEN [seen |-> seen, images |-> images]
           ELSE [seen |-> seen \cup {hash},
                 images |-> Append(images,
                                   [id |-> <<image.pageNumber, Len(onPage) + 1>>,
                                    pageNumber |-> image.pageNumber,
                                    data |-> image.data,
                                    width |-> image.width,
                                    height |-> image.height])]

\* onImageBlock (part_001 53-78): seenImageHashes and the images kept so far,
\* after one image block
onImageBlock(seen, images, image) ==
  IF image.width < MIN_IMAGE_DIMENSION \/ image.height < MIN_IMAGE_DIMENSION
  THEN [seen |-> seen, images |-> images]
  ELSE LET hash == simpleHash(image.data)
           onPage == SelectSeq(images, LAMBDA e : e.pageNumber = image.pageNumber)
       IN  IF hash \in seen
           THEN [seen |-> seen, images |-> images]
           ELSE [seen |-> seen \cup {hash},
                 images |-> Append(images,
                                   [id |-> <<image.pageNumber, Len(onPage) + 1>>,
                                    pageNumber |-> image.pageNumber,
                                    data |-> image.data,
                                    width |-> image.width,
                                    height |-> image.height])]

\* the whole walk over a sequence of image blocks
RECURSIVE walk(_, _, _)
walk(seen, images, blocks) ==
  IF blocks = <<>> THEN images
  ELSE LET after == onImageBlock(seen, images, Head(blocks))
       IN  walk(after.seen, after.images, Tail(blocks))

InitPdf ==
  /\ pc = "walk"
  /\ \E len \in 0..MaxPdfImages : pdfImages \in PdfImageSeqs(len)
  /\ pdfNext = 1
  /\ seenImageHashes = {}
  /\ pdfOut = <<>>
  /\ parseText = <<>>
  /\ parseBatch = <<>>
  /\ pages = <<>>
  /\ imageDescriptions = <<>>
  /\ totalCost = 0
  /\ result = None
  /\ TopicsIdle
  /\ PipelineIdle
  /\ ChunkIdle

\* stext.walk calls onImageBlock for the next image block
OnImageBlock ==
  /\ pc = "walk"
  /\ pdfNext <= Len(pdfImages)
  /\ LET after == onImageBlock(seenImageHashes, pdfOut, pdfImages[pdfNext])
     IN  /\ seenImageHashes' = after.seen
         /\ pdfOut' = after.images
  /\ pdfNext' = pdfNext + 1
  /\ UNCHANGED <<pc, pdfImages, parseText, parseBatch, pages, imageDescriptions,
                 totalCost, result, topicVars, pipelineVars, chunkVars>>

\* the loop over the pages ends
WalkDone ==
  /\ pc = "walk"
  /\ pdfNext > Len(pdfImages)
  /\ pc' = "walked"
  /\ UNCHANGED <<unitVars, pages, imageDescriptions, totalCost, result,
                 topicVars, pipelineVars, chunkVars>>

NextPdf == OnImageBlock \/ WalkDone

SpecPdf == InitPdf /\ [][NextPdf]_vars

\* the image blocks that pass the size filter, in walk order
Surviving ==
  SelectSeq(pdfImages,
            LAMBDA b : b.width >= MIN_IMAGE_DIMENSION /\ b.height >= MIN_IMAGE_DIMENSION)

\* the positions of Surviving that hold the first image of their fingerprint
FirstOccurrences ==
  {i \in DOMAIN Surviving :
     \A j \in 1..(i - 1) : simpleHash(Surviving[j].data) # simpleHash(Surviving[i].data)}

\* the k-th smallest element of a set of numbers
RECURSIVE Nth(_, _)
Nth(S, k) ==
  LET m == CHOOSE x \in S : \A y \in S : x <= y
  IN  IF k = 1 THEN m ELSE Nth(S \ {m}, k - 1)

AsBlock(e) ==
  [pageNumber |-> e.pageNumber, width |-> e.width, height |-> e.height,
   data |-> e.data]

\* C17: when the walk is over, the kept images are exactly the images that
\* are the first of their fingerprint, in their original order: one entry
\* per fingerprint, so two bit-identical images leave one entry; and a second
\* deduplication of the kept images removes nothing.
C17_FirstPerFingerprintInOrder ==
  pc = "walked" =>
    /\ Len(pdfOut) = Cardinality(FirstOccurrences)
    /\ \A k \in DOMAIN pdfOut : AsBlock(pdfOut[k]) = Surviving[Nth(FirstOccurrences, k)]
    /\ \A i, j \in DOMAIN pdfOut :
         simpleHash(pdfOut[i].data) = simpleHash(pdfOut[j].data) => i = j
    /\ \A i, j \in DOMAIN Surviving :
         Surviving[i].data = Surviving[j].data =>
           Cardinality({k \in DOMAIN pdfOut : pdfOut[k].data = Surviving[i].data}) <= 1
    /\ LET again == walk({}, <<>>, [k \in DOMAIN pdfOut |-> AsBlock(pdfOut[k])])
       IN  [k \in DOMAIN again |-> AsBlock(again[k])] =
           [k \in DOMAIN pdfOut |-> AsBlock(pdfOut[k])]

\* the same image on page 1 and on page 2 with another image between them:
\* the later copy is dropped and the other two are kept in order
C17_CopyOnLaterPageDropped ==
  /\ pc = "walked"
  /\ Len(Surviving) = 3
  /\ Surviving[1].data = Surviving[3].data
  /\ Surviving[1].pageNumber = 1
  /\ Surviving[3].pageNumber = 2
  /\ Len(pdfOut) = 2
  /\ pdfOut[1].data = Surviving[1].data
  /\ pdfOut[2].data = Surviving[2].data


\* the headings of the appendix sections, in the order of the document
AppendixOrder ==
  <<Lit("# Review Questions"), Lit("# Glossary"), Lit("# Common Pitfalls")>>

SectionHeadings ==
  {Lit("# Summary"), Lit("# Contents"), Lit("# Concept Map"), Lit("# Study Notes")}
  \cup Range(AppendixOrder)

\* the section headings of a document, in the order in which they stand
HeadingsOf(doc) == SelectSeq(doc, LAMBDA tok : tok \in SectionHeadings)

\* the headings from the k-th on are appendix headings in the appendix order
AppendicesInOrder(heads, k) ==
  /\ \A i \in k..Len(heads) : heads[i] \in Range(AppendixOrder)
  /\ \A i, j \in k..Len(heads) :
       i < j => indexOf(AppendixOrder, heads[i]) < indexOf(AppendixOrder, heads[j])

\* the document opens with the summary block
OpensWithSummary(doc) ==
  LET block == <<Lit("# Summary"), NL, NL>> \o boneStructure[1].summarization \o <<NL, NL>>
  IN  Len(doc) >= Len(block) /\ SubSeq(doc, 1, Len(block)) = block

\* the texts of two nodes stand in the main content, the first node's first
TwoNodesInOrder(doc, upTo) ==
  (IdsAsIssued /\ Len(nodeReq) = 2 /\ \A i \in DOMAIN nodeReq : nodeReq[i].notes[1].missing = {})
    => LET at(i) == indexOf(doc, nodeReq[i].notes[1].mainNote[1])
       IN  /\ indexOf(doc, Lit("# Study Notes")) < at(1)
           /\ at(1) < at(2)
           /\ at(2) < upTo

\* C18, as stated: the sections of the assembled document are the summary
\* block, then the diagram in its fenced block, then the main content, then
\* the review-questions, glossary and pitfalls sections in that order.
C18_SummaryThenDiagram ==
  pc = "done" =>
    LET doc == result[1].studyNotes
        heads == HeadingsOf(doc)
    IN  /\ OpensWithSummary(doc)
        /\ Len(heads) >= 3
        /\ SubSeq(heads, 1, 3) =
             <<Lit("# Summary"), Lit("# Concept Map"), Lit("# Study Notes")>>
        /\ AppendicesInOrder(heads, 4)

\* C18, amended: the sections of the assembled document are the summary
\* block, then the outline of the content titles, then the diagram in its
\* fenced block, then the main content, then the review-questions, glossary
\* and pitfalls sections in that order; for a two-node tree node 1's text
\* precedes node 2's text in the main content.
C18_SectionOrder ==
  pc = "done" =>
    LET doc == result[1].studyNotes
        heads == HeadingsOf(doc)
        end == IF Len(heads) > 4 THEN indexOf(doc, heads[5]) ELSE Len(doc) + 1
    IN  /\ OpensWithSummary(doc)
        /\ Len(heads) >= 4
        /\ SubSeq(heads, 1, 4) =
             <<Lit("# Summary"), Lit("# Contents"), Lit("# Concept Map"),
               Lit("# Study Notes")>>
        /\ AppendicesInOrder(heads, 5)
        /\ doc[indexOf(doc, Lit("# Concept Map")) + 3] = Lit("fence-mermaid")
        /\ indexOf(doc, Lit("fence-end")) < indexOf(doc, Lit("# Study Notes"))
        /\ TwoNodesInOrder(doc, end)

\* a document of a two-node tree with all three appendix sections
C18_TwoNodesSevenSections ==
  /\ pc = "done"
  /\ IdsAsIssued
  /\ Len(nodeReq) = 2
  /\ Len(HeadingsOf(result[1].studyNotes)) = 7


AppendixField(h) ==
  IF h = Lit("# Review Questions") THEN "reviewQuestions"
  ELSE IF h = Lit("# Glossary") THEN "glossary" ELSE "commonPitfalls"

\* the blocks of one kind that are not blank, in the order of the nodes
NonBlankBlocks(f) ==
  LET all == [i \in DOMAIN nodeReq |-> nodeReq[i].notes[1][f]]
  IN  SelectSeq(all, LAMBDA b : \E k \in DOMAIN b : ~IsWhiteSpace(b[k]))

\* what stands under the heading h: from after its blank line up to the blank
\* line before the next section heading, or before the end of the document
SectionBody(doc, h) ==
  LET start == indexOf(doc, h) + 3
      later == {i \in DOMAIN doc : i >= start /\ doc[i] \in SectionHeadings}
      stop == IF later = {} THEN Len(doc) + 1
              ELSE CHOOSE i \in later : \A j \in later : i <= j
  IN  SubSeq(doc, start, stop - 3)

\* C19: in an assembled document each appendix section (review questions,
\* glossary, pitfalls) is present iff some section result has a block of that
\* kind that is not blank; when present it stands once, and under its heading
\* are exactly the non-blank blocks of that kind, in node order.
C19_AppendixIffNonBlank ==
  pc = "done" =>
    LET doc == result[1].studyNotes
    IN  \A h \in Range(AppendixOrder) :
          LET blocks == NonBlankBlocks(AppendixField(h))
              at == {i \in DOMAIN doc : doc[i] = h}
          IN  /\ (at # {}) <=> (blocks # <<>>)
              /\ at # {} =>
                   /\ Cardinality(at) = 1
                   /\ SectionBody(doc, h) = JoinWith(blocks, <<NL, NL>>)

\* two nodes: only the second has review questions, neither has a glossary,
\* both have pitfalls
C19_OneAbsentOnePartialOneFull ==
  /\ pc = "done"
  /\ Len(nodeReq) = 2
  /\ Len(NonBlankBlocks("reviewQuestions")) = 1
  /\ trim(nodeReq[1].notes[1].reviewQuestions) = <<>>
  /\ NonBlankBlocks("glossary") = <<>>
  /\ Len(NonBlankBlocks("commonPitfalls")) = 2
  /\ HeadingsOf(result[1].studyNotes) =
       <<Lit("# Summary"), Lit("# Contents"), Lit("# Concept Map"),
         Lit("# Study Notes"), Lit("# Review Questions"), Lit("# Common Pitfalls")>>


\* the fenced diagram blocks of a document: the positions of the opening fences
FenceOpenings(doc) == {i \in DOMAIN doc : doc[i] = Lit("fence-mermaid")}

\* what stands inside the first fenced diagram block: between the line of the
\* opening fence and the line of the closing fence
FencedPayload(doc) ==
  SubSeq(doc, indexOf(doc, Lit("fence-mermaid")) + 2,
         indexOf(doc, Lit("fence-end")) - 2)

AllWhiteSpace(t) == \A k \in DOMAIN t : IsWhiteSpace(t[k])

\* body is text without the white space at its two ends, otherwise unchanged
IsTrimOf(body, text) ==
  /\ body = <<>> \/ (~IsWhiteSpace(body[1]) /\ ~IsWhiteSpace(body[Len(body)]))
  /\ \E a \in 0..Len(text) :
       /\ a + Len(body) <= Len(text)
       /\ SubSeq(text, a + 1, a + Len(body)) = body
       /\ AllWhiteSpace(SubSeq(text, 1, a))
       /\ AllWhiteSpace(SubSeq(text, a + Len(body) + 1, Len(text)))

\* C20, as stated: the diagram payload the service returned stands in the
\* document unmodified, token for token, inside exactly one fenced block.
C20_PayloadVerbatim ==
  pc = "done" =>
    LET doc == result[1].studyNotes
    IN  /\ Cardinality(FenceOpenings(doc)) = 1
        /\ FencedPayload(doc) = mermaidReq.mermaidFlowchart

\* C20, amended: the diagram payload the service returned stands in the
\* document inside exactly one fenced block, without the white space at its
\* two ends and otherwise unmodified.
C20_PayloadTrimmedOnly ==
  pc = "done" =>
    LET doc == result[1].studyNotes
    IN  /\ Cardinality(FenceOpenings(doc)) = 1
        /\ Cardinality({i \in DOMAIN doc : doc[i] = Lit("fence-end")}) = 1
        /\ IsTrimOf(FencedPayload(doc), mermaidReq.mermaidFlowchart)

\* a document whose diagram payload came with white space around it
C20_PaddedPayloadAssembled ==
  /\ pc = "done"
  /\ mermaidReq.mermaidFlowchart # <<>>
  /\ IsWhiteSpace(mermaidReq.mermaidFlowchart[1])
  /\ FencedPayload(result[1].studyNotes) # mermaidReq.mermaidFlowchart
  /\ FencedPayload(result[1].studyNotes) # <<>>


\* the images of batch requests that were sent
SentImages ==
  UNION {Range(batches[b].images) :
           b \in {i \in DOMAIN batchReq : batchReq[i].st # "unissued"}}

\* C21: the description list holds at most one description per image id, and
\* every description carries the id and the page number of an image that was
\* sent in some batch.
C21_OneDescriptionPerSentImage ==
  /\ \A i, j \in DOMAIN imageDescriptions :
       imageDescriptions[i].imageId = imageDescriptions[j].imageId => i = j
  /\ \A i \in DOMAIN imageDescriptions :
       \E img \in SentImages :
         /\ img.id = imageDescriptions[i].imageId
         /\ img.pageNumber = imageDescriptions[i].pageNumber

\* the description stage is over with the descriptions of two images that
\* were sent in two batches
C21_TwoBatchesDescribed ==
  /\ pc = "partition"
  /\ Len(batches) = 2
  /\ Len(imageDescriptions) = 2


\* C22: when the synthesis stage has succeeded there is one section result
\* per top-level node, in node order, and each carries the id of the node its
\* request was issued for.
C22_ResultCarriesNodeId ==
  pc = "done" =>
    /\ Len(nodeReq) = Len(boneStructure[1].contents)
    /\ \A i \in DOMAIN nodeReq :
         /\ nodeReq[i].notes # None
         /\ nodeReq[i].content = boneStructure[1].contents[i]
         /\ nodeReq[i].notes[1].contentId = boneStructure[1].contents[i].contentId


\* the positions of the section results that carry the id of the i-th node
ResultsFor(i) ==
  {k \in DOMAIN nodeReq :
     nodeReq[k].notes[1].contentId = boneStructure[1].contents[i].contentId}

\* the nodes that have a section result under their id, in tree order
NodesWithResult ==
  SelectSeq([i \in DOMAIN boneStructure[1].contents |-> i],
            LAMBDA i : ResultsFor(i) # {})

\* C23: in the merge a node without a section result under its id contributes
\* nothing to the main content and raises no error; the main content is the
\* text stored under the id of each other node, in tree order (for results
\* that all have their mainNote).
C23_NodeWithoutResultSkipped ==
  (pc = "done" /\ \A k \in DOMAIN nodeReq : "mainNote" \notin nodeReq[k].notes[1].missing) =>
    MainContent(result[1].studyNotes) =
      JoinWith([n \in DOMAIN NodesWithResult |->
                  nodeReq[SetMax(ResultsFor(NodesWithResult[n]))].notes[1].mainNote
                    \o <<NL>>],
               <<NL>>)

\* two nodes with distinct ids; the second node's result carries an id of no
\* node, and the document holds the first node's text alone
C23_SecondNodeHasNoResult ==
  /\ pc = "done"
  /\ Len(nodeReq) = 2
  /\ NodesWithResult = <<1>>
  /\ ResultsFor(1) = {1}
  /\ MainContent(result[1].studyNotes) = nodeReq[1].notes[1].mainNote \o <<NL>>


(***************************************************************************)
(* The pipeline under fairness: the event loop runs every step that is     *)
(* ready, and every request that was sent returns or fails.  The document  *)
(* has an image on each page, one batch per image; the responses report no *)
(* token usage and the trees name page 1 only.                             *)
(***************************************************************************)
\* the responses of the runs under fairness
LiveScope ==
  /\ \A i \in DOMAIN batchReq : batchReq[i].usage = NoUsage
  /\ partReq.usage = NoUsage
  /\ \A i \in DOMAIN nodeReq : nodeReq[i].usage = NoUsage
  /\ mermaidReq.usage = NoUsage
  /\ partResponse # None =>
       \A i \in DOMAIN partResponse[1].contents :
         partResponse[1].contents[i].pages = <<1>>

InitLive ==
  /\ Init
  /\ \A p \in DOMAIN pages : pages[p].images # <<>>
  /\ batchSize = 1

NextLive == Next /\ LiveScope'

BatchReturns(i) ==
  i \in DOMAIN batchReq /\ (BatchOk(i) \/ BatchFail(i)) /\ LiveScope'

NodeReturns(i) ==
  /\ i \in DOMAIN nodeReq
  /\ NodeOk(i) \/ NodeUnparseable(i) \/ NodeFail(i)
  /\ LiveScope'

Fairness ==
  /\ WF_vars(Start)
  /\ WF_vars(LaunchBatch)
  /\ WF_vars(LaunchNode)
  /\ WF_vars(LaunchMermaid)
  /\ \A i \in 1..NumPages : WF_vars(BatchReturns(i))
  /\ WF_vars((PartitionOk \/ PartitionUnparseable \/ PartitionFail) /\ LiveScope')
  /\ \A i \in 1..MaxNodes : WF_vars(NodeReturns(i))
  /\ WF_vars((MermaidOk \/ MermaidUnparseable \/ MermaidFail) /\ LiveScope')

SpecLive == InitLive /\ [][NextLive]_vars /\ Fairness

\* a stage is waiting at its join
Waiting == pc \in {"desc", "partition", "synth"}

\* a request of the stage the run is in has been sent and has not returned
SomeRequestOutstanding ==
  \/ pc = "desc" /\ Outstanding(batchReq) # {}
  \/ pc = "partition" /\ partReq.st = "pending"
  \/ pc = "synth" /\ (Outstanding(nodeReq) # {} \/ mermaidReq.st = "pending")

\* a request of the stage the run is in is still to be sent
SomeLaunchReady ==
  \/ pc = "desc" /\ LaunchEnabled(batchReq)
  \/ pc = "synth" /\ (LaunchEnabled(nodeReq) \/ mermaidReq.st = "unissued")

\* C24: when every request that was sent returns or fails, the run ends,
\* with an assembled document and a cost total or with a fatal abort; and a
\* stage waits at its join only while one of its requests is still to be
\* sent or has not returned.
C24_RunEnds ==
  /\ [](Waiting => SomeRequestOutstanding \/ SomeLaunchReady)
  /\ <>(\/ pc = "failed"
        \/ /\ pc = "done"
           /\ result # None
           /\ result[1].costEstimate = totalCost)

\* the run has ended with a document after two batches, two nodes and the
\* flowchart all returned
C24_DoneAfterAllReturned ==
  /\ pc = "done"
  /\ Len(batchReq) = 2
  /\ Len(nodeReq) = 2
  /\ AllOk(batchReq)
  /\ AllOk(nodeReq)
  /\ mermaidReq.st = "ok"


\* the universe pages that are in some node's transitive page set
CoveredPages == UniversePages \ UncoveredPages

\* the pages in the input of the per-node requests that were sent
RequestedPages ==
  UNION {{nodeReq[i].input[k].pageNumber : k \in DOMAIN nodeReq[i].input} :
           i \in {j \in DOMAIN nodeReq : nodeReq[j].st # "unissued"}}

\* C25: once every per-node request has been sent, every universe page that
\* validation counted as covered is in the input of at least one of them.
C25_CoveredPagesReachSynthesis ==
  (pc = "synth" /\ ~LaunchEnabled(nodeReq)) => CoveredPages \subseteq RequestedPages


\* C26: in an assembled document the main content holds the mainNote of
\* every section result exactly once, at the position of its node, for every
\* tree, two nodes with one id included (for payloads that carry no contentId
\* of their own and have their mainNote).
C26_EveryResultMergedOnce ==
  (/\ pc = "done"
   /\ \A i \in DOMAIN nodeReq :
        /\ nodeReq[i].notes[1].contentId = nodeReq[i].content.contentId
        /\ "mainNote" \notin nodeReq[i].notes[1].missing)
    => MainContent(result[1].studyNotes) =
         JoinWith([i \in DOMAIN nodeReq |-> nodeReq[i].notes[1].mainNote \o <<NL>>],
                  <<NL>>)


\* C27: every overlap warning names two different sibling nodes that both
\* list the page, the first claimant and a later one; a node that lists a
\* page twice in its own page list causes no warning.
C27_WarningNamesTwoNodes ==
  pc = "validated" =>
    \A w \in Range(log) :
      w.kind \in {"top", "sub"} =>
        /\ w.first # w.second
        /\ \E siblings \in SiblingLists(partResponse[1].contents) :
             \E i, j \in DOMAIN siblings :
               /\ i < j
               /\ siblings[i].title = w.first
               /\ siblings[j].title = w.second
               /\ w.page \in Range(siblings[i].pages) \cap Range(siblings[j].pages)


\* the numbers of the pages of the document that have text or images
ContentBearing == {p.pageNumber : p \in {q \in Range(pages) : HasContent(q)}}

\* the page numbers of the input of the i-th per-topic request, in its order
TopicInputPages(i) ==
  [n \in DOMAIN summaryReq[i].textContent |-> summaryReq[i].textContent[n].pageNumber]

\* the declared pages of a node that are in the universe, in declared order
DeclaredInUniverse(declared, universe) ==
  SelectSeq(declared, LAMBDA p : p \in universe)

NodeInputInDeclaredOrder ==
  \A i \in DOMAIN nodeReq :
    nodeReq[i].st # "unissued" =>
      [n \in DOMAIN nodeReq[i].input |-> nodeReq[i].input[n].pageNumber] =
        DeclaredInUniverse(nodeReq[i].content.pages,
                           {q.pageNumber : q \in Range(synthesisInputPages)})

C29_PartitionAfterAllBatches ==
  /\ partReq.st # "unissued" =>
       /\ \A i \in DOMAIN batchReq : batchReq[i].st = "ok"
       /\ Range(descArrival) = DOMAIN batchReq
       /\ imageDescriptions =
            Concat([i \in DOMAIN batchReq |-> batchReq[i].descriptions])
       /\ synthesisInputPages = SynthesisInputPages(pages, imageDescriptions)
  /\ (\E i \in DOMAIN batchReq : batchReq[i].st = "failed") =>
       partReq.st = "unissued"

\* the partition request is out after two batches completed, the second one
\* launched being the first to return, and their descriptions were collected
C29_PartitionIssuedAfterTwoBatches ==
  /\ partReq.st = "pending"
  /\ Len(batchReq) = 2
  /\ descArrival = <<2, 1>>
  /\ Len(imageDescriptions) >= 2


\* the images in the order they were sent: batch after batch in launch order,
\* each batch in its own image order
LaunchOrder == Concat([b \in DOMAIN batches |-> batches[b].images])

\* the images of one tier in the order they were sent
TierLaunchOrder(model) ==
  SelectSeq(LaunchOrder,
            LAMBDA img : \E b \in DOMAIN batches :
                           batches[b].model = model /\ img \in Range(batches[b].images))

\* C30: the description list does not depend on the order in which the batches
\* complete: its entries follow the launch order of the batches (every batch of
\* the simple tier before every batch of the complex tier, each tier in the
\* images' original order) and, within a batch, the order of the batch's images.
C30_DescriptionsInLaunchOrder ==
  /\ \A m, n \in DOMAIN imageDescriptions :
       m < n => PositionIn(LaunchOrder, imageDescriptions[m].imageId) <
                PositionIn(LaunchOrder, imageDescriptions[n].imageId)
  /\ \A a, b \in DOMAIN batches :
       (a < b /\ batches[a].model = MODEL_PREMIUM) => batches[b].model = MODEL_PREMIUM
  /\ InOriginalOrder(TierLaunchOrder(MODEL_MINI), AllImages(pages))
  /\ InOriginalOrder(TierLaunchOrder(MODEL_PREMIUM), AllImages(pages))

\* the second batch launched returned first, both batches were described, and
\* the list opens with the first batch's image
C30_SecondBatchReturnedFirst ==
  /\ descArrival = <<2, 1>>
  /\ partReq.st # "unissued"
  /\ Len(imageDescriptions) >= 2
  /\ imageDescriptions[1].imageId = batches[1].images[1].id
  /\ \E n \in DOMAIN imageDescriptions :
       imageDescriptions[n].imageId = batches[2].images[1].id

=============================================================================
